---- MODULE Spec2Model ----
(***************************************************************************)
(* Unicode URL Converter: the content script's conversion core             *)
(* (createUnicodePattern, processTextNodes, convertTextAsync) over a small *)
(* page, with the conversion map and the target selector held in           *)
(* chrome.storage.local.                                                   *)
(*                                                                         *)
(* A character is its UTF-16 code unit (a natural number); a JavaScript    *)
(* string is a sequence of code units.  The conversion map is an object:   *)
(* a sequence of [key, value] entries in insertion order (the order of     *)
(* Object.keys), with distinct keys.                                       *)
(***************************************************************************)
EXTENDS Integers, Sequences, FiniteSets, TLC

VARIABLES
    conversionMap,  \* chrome.storage.local 'conversionMap': [present, entries]
    targetTags,     \* chrome.storage.local 'targetTags': the selector the popup sends
    text,           \* textContent of every text node of the page
    pc,             \* the content script: "idle" or "awaitMap" (inside getConversionMap)
    req,            \* the selector of the convertText request being served
    last,           \* what the last finished convertTextAsync pass did and answered
    popup,          \* the popup in use: "controller" (PopupController) or "popup.js"
    tabUrl,         \* protocol of the active tab's URL
    loaded,         \* content.js has been injected into the tab
    op,             \* the convert handler: idle, probing, injecting, waiting, ready,
                    \* failed, sent, done
    attempt,        \* ensureContentScript's loop variable
    probes,         \* pings sent by the current request
    injections,     \* executeScript calls of the current request
    sent,           \* convertText messages sent by the current request
    saveHistory,    \* executeConversion's options.saveHistory
    outcome,        \* how the current request ended
    status,         \* what showStatus was last called with
    conversionHistory,  \* chrome.storage.local 'conversionHistory', newest first
    historyAdds,    \* history additions issued by the current request
    requests,       \* convert clicks so far
    exported,       \* the JSON object of the last exported file: [present, entries]
    opResult,       \* the last settings operation: what it wrote and returned
    ops,            \* settings operations so far
    passes,         \* the convertText requests that overlap on the page
    installed,      \* the details of the last runtime.onInstalled event
    send,           \* the MessageService.sendMessage call in progress
    preview,        \* the last generatePreview call: its arguments and result
    adders,         \* the history additions in progress: what each has read and written
    container,      \* the DependencyContainer: what is registered, built and resolved
    returned,       \* what executeConversion returned to the current request
    historySaved,   \* how the history addition of the current request ended
    trace           \* what ensureContentScript has done for the current request

contentVars == <<conversionMap, targetTags, text, pc, req, last>>

popupVars ==
    <<popup, tabUrl, loaded, op, attempt, probes, injections, sent, saveHistory,
      outcome, status, conversionHistory, historyAdds, requests,
      exported, opResult, ops>>

overlapVars == <<passes>>

serviceVars == <<installed, send, preview, adders, container>>

logVars == <<returned, historySaved, trace>>

vars == <<contentVars, popupVars, overlapVars, serviceVars, logVars>>

---------------------------------------------------------------------------
(* Bounds of the model *)

\* total number of characters in the page's text nodes
MaxLen == 2
\* number of entries of a stored conversion map
MaxKeys == 2
\* convert clicks in one run of the popup
MaxRequests == 2
\* total number of characters in the page's text nodes when the popup drives
MaxRequestLen == 1

---------------------------------------------------------------------------
(* Characters *)

\* code unit of the characters the model names
Ch(c) ==
    CASE c = "[" -> 91
      [] c = "\\" -> 92
      [] c = "]" -> 93
      [] c = "^" -> 94
      [] c = "-" -> 45
      [] c = "u" -> 117
      [] c = ":" -> 58
      [] c = "." -> 46
      [] c = "/" -> 47
      [] c = ";" -> 59
      [] c = ")" -> 41
      [] c = "!" -> 33
      [] c = "U+02F8" -> 760
      [] c = "U+2024" -> 8228
      [] c = "U+2044" -> 8260

\* '0'..'9', 'A'..'F', 'a'..'f'
IsHexDigit(c) == (c >= 48 /\ c <= 57) \/ (c >= 65 /\ c <= 70) \/ (c >= 97 /\ c <= 102)

\* parseInt of one hexadecimal digit
HexVal(c) ==
    IF c >= 48 /\ c <= 57 THEN c - 48
    ELSE IF c >= 65 /\ c <= 70 THEN c - 55
    ELSE c - 87

\* the digit d (0..15) as toString(16).toUpperCase() writes it
HexDigit(d) == IF d < 10 THEN 48 + d ELSE 55 + d

\* '\\u' + charCode.toString(16).toUpperCase().padStart(4, '0')
UnicodeKey(cp) ==
    << Ch("\\"), Ch("u"),
       HexDigit((cp \div 4096) % 16), HexDigit((cp \div 256) % 16),
       HexDigit((cp \div 16) % 16), HexDigit(cp % 16) >>

\* /^\\u[0-9A-Fa-f]{4}$/.test(key)
IsUnicodeFormat(key) ==
    /\ Len(key) = 6
    /\ key[1] = Ch("\\")
    /\ key[2] = Ch("u")
    /\ \A i \in 3..6 : IsHexDigit(key[i])

\* the code unit a key in \uXXXX form denotes
DecodeUnicodeKey(key) ==
    4096 * HexVal(key[3]) + 256 * HexVal(key[4]) + 16 * HexVal(key[5]) + HexVal(key[6])

---------------------------------------------------------------------------
(* The conversion map as a JavaScript object *)

\* Object.keys(map): the keys in insertion order
Keys(map) == [i \in 1..Len(map) |-> map[i].key]

\* keys.join('')
RECURSIVE Join(_)
Join(keys) == IF keys = <<>> THEN <<>> ELSE Head(keys) \o Join(Tail(keys))

\* map.hasOwnProperty(k)
HasKey(map, k) == \E i \in 1..Len(map) : map[i].key = k

\* map[k] for a key the map has
Get(map, k) == map[CHOOSE i \in 1..Len(map) : map[i].key = k].value

\* the replace callback's return value: map[match] || match
\* (a missing property is undefined and an empty string is falsy)
MapOrMatch(map, match) ==
    IF HasKey(map, match) /\ Get(map, match) # <<>> THEN Get(map, match) ELSE match

---------------------------------------------------------------------------
(* new RegExp(source, 'g'): ECMAScript pattern syntax without the u flag   *)
(* (Annex B), for the sources '[' + keys.join('') + ']' can be over the    *)
(* model's characters: character classes with negation, ranges and         *)
(* escapes, \uXXXX and identity escapes, the ^ assertion, literal          *)
(* characters.  A pattern is a sequence of terms; ok = FALSE is the        *)
(* SyntaxError new RegExp throws.                                          *)

RegExpError == [ok |-> FALSE, terms |-> <<>>]

\* src[i] is a backslash: the character the escape denotes and where it ends.
\* \uXXXX is the code unit XXXX; any other escaped character of the model is
\* an identity escape; a backslash that ends the source escapes nothing.
Escape(src, i) ==
    IF i + 1 > Len(src) THEN [ok |-> FALSE, cp |-> 0, next |-> i + 1]
    ELSE IF src[i + 1] = Ch("u") /\ i + 5 <= Len(src)
                /\ \A j \in (i + 2)..(i + 5) : IsHexDigit(src[j])
        THEN [ok |-> TRUE, cp |-> DecodeUnicodeKey(SubSeq(src, i, i + 5)), next |-> i + 6]
    ELSE [ok |-> TRUE, cp |-> src[i + 1], next |-> i + 2]

\* ClassAtom at src[j]
ClassAtom(src, j) ==
    IF src[j] = Ch("\\") THEN Escape(src, j)
    ELSE [ok |-> TRUE, cp |-> src[j], next |-> j + 1]

\* ClassRanges from src[j] up to the closing bracket: the set of <<lo, hi>>
\* ranges of the class.  No closing bracket, or a range out of order, is a
\* SyntaxError.
RECURSIVE ClassRanges(_, _, _)
ClassRanges(src, j, acc) ==
    IF j > Len(src) THEN [ok |-> FALSE, ranges |-> acc, next |-> j]
    ELSE IF src[j] = Ch("]") THEN [ok |-> TRUE, ranges |-> acc, next |-> j + 1]
    ELSE LET a == ClassAtom(src, j) IN
         IF ~a.ok THEN [ok |-> FALSE, ranges |-> acc, next |-> j]
         ELSE IF a.next + 1 <= Len(src) /\ src[a.next] = Ch("-")
                     /\ src[a.next + 1] # Ch("]")
             THEN LET b == ClassAtom(src, a.next + 1) IN
                  IF ~b.ok \/ a.cp > b.cp
                      THEN [ok |-> FALSE, ranges |-> acc, next |-> j]
                      ELSE ClassRanges(src, b.next, acc \cup {<<a.cp, b.cp>>})
             ELSE ClassRanges(src, a.next, acc \cup {<<a.cp, a.cp>>})

\* src[i] is an opening bracket: the character class that starts there
CharacterClass(src, i) ==
    LET neg == i + 1 <= Len(src) /\ src[i + 1] = Ch("^")
        r   == ClassRanges(src, IF neg THEN i + 2 ELSE i + 1, {})
    IN  [ok |-> r.ok, neg |-> neg, ranges |-> r.ranges, next |-> r.next]

ClassTerm(neg, ranges) == [kind |-> "class", neg |-> neg, ranges |-> ranges]
BolTerm == [kind |-> "bol", neg |-> FALSE, ranges |-> {}]

\* the terms of the pattern from src[i] on
RECURSIVE Terms(_, _, _)
Terms(src, i, acc) ==
    IF i > Len(src) THEN [ok |-> TRUE, terms |-> acc]
    ELSE IF src[i] = Ch("[")
        THEN LET c == CharacterClass(src, i) IN
             IF ~c.ok THEN RegExpError
             ELSE Terms(src, c.next, Append(acc, ClassTerm(c.neg, c.ranges)))
    ELSE IF src[i] = Ch("^") THEN Terms(src, i + 1, Append(acc, BolTerm))
    ELSE IF src[i] = Ch("\\")
        THEN LET e == Escape(src, i) IN
             IF ~e.ok THEN RegExpError
             ELSE Terms(src, e.next, Append(acc, ClassTerm(FALSE, {<<e.cp, e.cp>>})))
    ELSE Terms(src, i + 1, Append(acc, ClassTerm(FALSE, {<<src[i], src[i]>>})))

\* new RegExp(src, 'g')
RegExp(src) == Terms(src, 1, <<>>)

\* does the class term match the character c
ClassMatches(term, c) ==
    (\E r \in term.ranges : r[1] <= c /\ c <= r[2]) # term.neg

\* the position after a match of terms[k..] that starts at s[p], 0 if none
RECURSIVE MatchFrom(_, _, _, _)
MatchFrom(terms, k, s, p) ==
    IF k > Len(terms) THEN p
    ELSE IF terms[k].kind = "bol"
        THEN IF p = 1 THEN MatchFrom(terms, k + 1, s, p) ELSE 0
    ELSE IF p <= Len(s) /\ ClassMatches(terms[k], s[p])
        THEN MatchFrom(terms, k + 1, s, p + 1)
    ELSE 0

\* s.replace(pattern, match => { conversions++; return map[match] || match })
\* from s[p] on: the converted text and the number of callback calls
RECURSIVE ReplaceFrom(_, _, _, _, _)
ReplaceFrom(s, p, terms, map, acc) ==
    IF p > Len(s) THEN acc
    ELSE LET e == MatchFrom(terms, 1, s, p) IN
         IF e = 0
             THEN ReplaceFrom(s, p + 1, terms, map,
                              [acc EXCEPT !.out = acc.out \o <<s[p]>>])
             ELSE LET match == SubSeq(s, p, e - 1) IN
                  ReplaceFrom(s, e, terms, map,
                      [out         |-> acc.out \o MapOrMatch(map, match),
                       conversions |-> acc.conversions + 1])

Replace(s, pattern, map) ==
    ReplaceFrom(s, 1, pattern.terms, map, [out |-> <<>>, conversions |-> 0])

\* a builder that negates the class: '[^' + keys.join('') + ']'
createUnicodePattern_Negated(map) ==
    RegExp(<<Ch("["), Ch("^")>> \o Join(Keys(map)) \o <<Ch("]")>>)

\* content.js createUnicodePattern
createUnicodePattern(map) ==
    RegExp(<<Ch("[")>> \o Join(Keys(map)) \o <<Ch("]")>>)

---------------------------------------------------------------------------
(* The page: body > (p1 > (t1, span > t2), p2 > t3) *)

Elements == {"body", "p1", "span", "p2"}
TextNodes == {"t1", "t2", "t3"}

\* childNodes, in order
Children(n) ==
    CASE n = "body" -> <<"p1", "p2">>
      [] n = "p1"   -> <<"t1", "span">>
      [] n = "span" -> <<"t2">>
      [] n = "p2"   -> <<"t3">>
      [] OTHER      -> <<>>

TagName(n) ==
    CASE n \in {"p1", "p2"} -> "p"
      [] n = "span"         -> "span"
      [] OTHER              -> "body"

\* the elements of the document in document order
DocumentOrder == <<"body", "p1", "span", "p2">>

\* the selectors the popup can send: a tag, a selector list whose matches
\* nest, a selector that matches nothing, a selector that does not parse
Selectors == {"p", "p, span", "div", "p["}

SelectorIsValid(selector) == selector # "p["

SelectorTags(selector) ==
    CASE selector = "p"       -> {"p"}
      [] selector = "p, span" -> {"p", "span"}
      [] OTHER                -> {}

\* document.querySelectorAll(selector), for a selector that parses
querySelectorAll(selector) ==
    SelectSeq(DocumentOrder, LAMBDA e : TagName(e) \in SelectorTags(selector))

\* a walk that stops at the children: the text nodes among ns
WalkTextNodes_ChildrenOnly(ns) == SelectSeq(ns, LAMBDA n : n \in TextNodes)

\* createTreeWalker(element, SHOW_TEXT) with the nextNode() loop: the text
\* nodes below the nodes of ns, in document order
RECURSIVE WalkTextNodes(_)
WalkTextNodes(ns) ==
    IF ns = <<>> THEN <<>>
    ELSE (IF Head(ns) \in TextNodes THEN <<Head(ns)>>
          ELSE WalkTextNodes(Children(Head(ns))))
         \o WalkTextNodes(Tail(ns))

---------------------------------------------------------------------------
(* content.js *)

DEFAULT_MAP ==
    << [key |-> <<Ch("U+02F8")>>, value |-> <<Ch(":")>>],
       [key |-> <<Ch("U+2024")>>, value |-> <<Ch(".")>>],
       [key |-> <<Ch("U+2044")>>, value |-> <<Ch("/")>>] >>

\* getConversionMap: result.conversionMap || DEFAULT_MAP
getConversionMap(stored) == IF stored.present THEN stored.entries ELSE DEFAULT_MAP

\* a write-back without the comparison
ShouldWrite_Always(originalText, convertedText) == TRUE

\* if (originalText !== convertedText)
ShouldWrite(originalText, convertedText) == originalText # convertedText

\* textNodes.forEach(...): acc holds the page text, the running conversions
\* count and the nodes assigned to
RECURSIVE ForEachTextNode(_, _, _, _)
ForEachTextNode(textNodes, map, pattern, acc) ==
    IF textNodes = <<>> THEN acc
    ELSE LET textNode     == Head(textNodes)
             originalText == acc.text[textNode]
             r            == Replace(originalText, pattern, map)
         IN  ForEachTextNode(Tail(textNodes), map, pattern,
                 [text        |-> IF ShouldWrite(originalText, r.out)
                                      THEN [acc.text EXCEPT ![textNode] = r.out]
                                      ELSE acc.text,
                  conversions |-> acc.conversions + r.conversions,
                  written     |-> IF ShouldWrite(originalText, r.out)
                                      THEN Append(acc.written, textNode)
                                      ELSE acc.written])

\* processTextNodes(element, map, pattern) on the page text txt: what the
\* call returns (conversions) and what it did
processTextNodes(element, map, pattern, txt) ==
    LET textNodes == WalkTextNodes(Children(element))
        r == ForEachTextNode(textNodes, map, pattern,
                 [text |-> txt, conversions |-> 0, written |-> <<>>])
    IN  [root        |-> element,
         visited     |-> textNodes,
         conversions |-> r.conversions,
         written     |-> r.written,
         textIn      |-> txt,
         textOut     |-> r.text]

\* an assignment in place of the addition: totalConversions = conversions
AddConversions_Last(totalConversions, conversions) == conversions

\* totalConversions += conversions
AddConversions(totalConversions, conversions) == totalConversions + conversions

\* elements.forEach(...): acc holds the page text, totalConversions and the
\* processTextNodes calls made
RECURSIVE ForEachElement(_, _, _, _)
ForEachElement(elements, map, pattern, acc) ==
    IF elements = <<>> THEN acc
    ELSE LET c == processTextNodes(Head(elements), map, pattern, acc.text) IN
         ForEachElement(Tail(elements), map, pattern,
             [text  |-> c.textOut,
              total |-> AddConversions(acc.total, c.conversions),
              calls |-> Append(acc.calls, c)])

\* the answer when the selector matches no element
NoElementsResult == [success |-> TRUE, message |-> "contentNoElements", count |-> 0]

\* the answer after the elements have been processed
CompleteResult(totalConversions) ==
    [success |-> TRUE, message |-> "contentConversionComplete", count |-> totalConversions]

\* the catch block: a DOMException named SyntaxError is the selector's
InvalidSelectorResult == [success |-> FALSE, message |-> "contentInvalidSelector", count |-> 0]
ConversionErrorResult == [success |-> FALSE, message |-> "contentConversionError", count |-> 0]

\* the record of a pass kept in last: what every pass records (the map, the
\* one build of the matcher, the page text before) and what this one did
Pass(selector, map, txt, pattern, did) ==
    [valid |-> TRUE, selector |-> selector, map |-> map,
     builds |-> 1, built |-> pattern.ok, before |-> txt] @@ did

\* the pass whose elements.forEach(...) ended as r
Processed(selector, map, txt, pattern, elements, r) ==
    Pass(selector, map, txt, pattern,
         [resolved |-> TRUE, elements |-> elements, calls |-> r.calls,
          result |-> CompleteResult(r.total), after |-> r.text])

\* the pass from the point querySelectorAll(selector) has returned elements
Resolved(selector, map, txt, pattern, elements) ==
    IF Len(elements) = 0
        THEN Pass(selector, map, txt, pattern,
                  [resolved |-> TRUE, elements |-> elements, calls |-> <<>>,
                   result |-> NoElementsResult, after |-> txt])
        ELSE Processed(selector, map, txt, pattern, elements,
                       ForEachElement(elements, map, pattern,
                                      [text |-> txt, total |-> 0, calls |-> <<>>]))

\* the pass from the point createUnicodePattern(map) has returned pattern or
\* thrown
Built(selector, map, txt, pattern) ==
    IF ~pattern.ok
        THEN Pass(selector, map, txt, pattern,
                  [resolved |-> FALSE, elements |-> <<>>, calls |-> <<>>,
                   result |-> ConversionErrorResult, after |-> txt])
    ELSE IF ~SelectorIsValid(selector)
        THEN Pass(selector, map, txt, pattern,
                  [resolved |-> FALSE, elements |-> <<>>, calls |-> <<>>,
                   result |-> InvalidSelectorResult, after |-> txt])
    ELSE Resolved(selector, map, txt, pattern, querySelectorAll(selector))

\* convertTextAsync(selector) from the point getConversionMap() has resolved
\* with map, on the page text txt: the pass, as the record kept in last
convertTextAsync(selector, map, txt) ==
    Built(selector, map, txt, createUnicodePattern(map))

---------------------------------------------------------------------------
(* ConversionController *)

\* unicode.length === 1 && unicode.charCodeAt(0) > 127
IsActualUnicodeChar(key) == Len(key) = 1 /\ key[1] > 127

\* validateConversionMap(conversionMap).valid: every key is in \uXXXX form
\* or one character above 127, every value is one character, no two values
\* are the same
validateConversionMap(map) ==
    /\ \A i \in 1..Len(map) :
        /\ IsUnicodeFormat(map[i].key) \/ IsActualUnicodeChar(map[i].key)
        /\ Len(map[i].value) = 1
    /\ \A i, j \in 1..Len(map) : map[i].value = map[j].value => i = j

---------------------------------------------------------------------------
(* The inputs: stored maps and page texts *)

\* the characters page text is made of
TextChars == {Ch("U+02F8"), Ch("U+2024"), Ch("]")}

\* entries of the maps the extension itself stores: an entry of the default
\* map (the key is the character itself), the same key with a value that is
\* another entry's source character, and a key in the \uXXXX form the
\* popup's add form builds
StorablePool ==
    { [key |-> <<Ch("U+02F8")>>,         value |-> <<Ch(":")>>],
      [key |-> <<Ch("U+02F8")>>,         value |-> <<Ch("U+2024")>>],
      [key |-> UnicodeKey(Ch("U+2024")), value |-> <<Ch(";")>>] }

\* entries whose key is a character with a meaning in pattern syntax
SyntaxPool ==
    { [key |-> <<Ch("]")>>,  value |-> <<Ch(")")>>],
      [key |-> <<Ch("^")>>,  value |-> <<Ch("!")>>],
      [key |-> <<Ch("\\")>>, value |-> <<Ch("/")>>] }

\* the objects with n entries of pool (distinct keys, any insertion order)
RECURSIVE MapsOfSize(_, _)
MapsOfSize(pool, n) ==
    IF n = 0 THEN {<<>>}
    ELSE UNION { { Append(m, e) : e \in {x \in pool : ~HasKey(m, x.key)} } :
                 m \in MapsOfSize(pool, n - 1) }

Maps(pool) == UNION { MapsOfSize(pool, n) : n \in 0..MaxKeys }

\* what chrome.storage.local can hold under 'conversionMap': nothing, or a map
StoredMaps(pool) ==
    {[present |-> FALSE, entries |-> <<>>]}
        \cup {[present |-> TRUE, entries |-> m] : m \in Maps(pool)}

Texts == UNION { [1..n -> TextChars] : n \in 0..MaxLen }

\* the number of characters in the text nodes of the page
TotalLen(txt) == Len(txt["t1"]) + Len(txt["t2"]) + Len(txt["t3"])

Pages == { txt \in [TextNodes -> Texts] : TotalLen(txt) <= MaxLen }

---------------------------------------------------------------------------
(* The state machine *)

NoPass ==
    [valid |-> FALSE, selector |-> "", map |-> <<>>, builds |-> 0, built |-> FALSE,
     before |-> [n \in TextNodes |-> <<>>], resolved |-> FALSE, elements |-> <<>>,
     calls |-> <<>>, result |-> [success |-> FALSE, message |-> "", count |-> 0],
     after |-> [n \in TextNodes |-> <<>>]]

\* the requests convertTextAsync may be running for at once
MaxOverlap == 2

\* no request has arrived
NoPasses == [k \in 1..MaxOverlap |-> [pc |-> "none", selector |-> "", pass |-> NoPass]]

\* nothing exported yet
NoFile == [present |-> FALSE, entries |-> <<>>]

\* no status shown yet
NoStatus == [success |-> FALSE, message |-> "", count |-> 0]

\* no settings operation yet
NoOp == [op |-> "", file |-> <<>>, parsed |-> TRUE, wrote |-> FALSE, writeFailed |-> FALSE,
         success |-> FALSE, shown |-> NoStatus]

\* no onInstalled event yet
NoDetails == [reason |-> "", previousVersion |-> ""]

\* executeConversion has not returned
NoResult == [settled |-> FALSE, success |-> FALSE, message |-> "", count |-> 0]

\* no sendMessage call yet
NoSend ==
    [calls |-> 0, message |-> "", timeout |-> 0, promise |-> "none", value |-> "",
     timer |-> "none", callback |-> "none", lastError |-> FALSE, response |-> "",
     order |-> <<>>, results |-> 0,
     result |-> [success |-> FALSE, data |-> "", message |-> ""]]

\* generatePreview has not been called
NoPreview ==
    [calls |-> 0, source |-> "", sampleText |-> <<>>, map |-> <<>>,
     result |-> [success |-> FALSE, converted |-> <<>>, conversions |-> 0]]

\* the history additions that can overlap
MaxAdders == 3

\* no addition has started
NoAdders ==
    [k \in 1..MaxAdders |->
        [pc |-> "idle", entry |-> [url |-> "", count |-> 0, date |-> 0],
         history |-> <<>>, stored |-> FALSE, cleared |-> FALSE]]

\* the names createServiceContainer registers, in the order it registers them
ServiceNames == <<"storageService", "messageService", "historyService">>

\* a name that is not registered: services.get(name) is undefined
Unregistered == [type |-> "none", dependencies |-> <<>>]

\* a new DependencyContainer: nothing registered, checked or resolved
NoContainer ==
    [services |-> [n \in {ServiceNames[i] : i \in DOMAIN ServiceNames} |-> Unregistered],
     instance |-> [n \in {ServiceNames[i] : i \in DOMAIN ServiceNames} |-> "none"],
     factoryCalls |-> [n \in {ServiceNames[i] : i \in DOMAIN ServiceNames} |-> 0],
     cyclicDeps |-> <<>>, created |-> "none", resolves |-> 0, name |-> "",
     outcome |-> "none"]

\* the background worker and the services before any event
ServicesAtRest ==
    /\ installed = NoDetails
    /\ send = NoSend
    /\ preview = NoPreview
    /\ adders = NoAdders
    /\ container = NoContainer
    /\ returned = NoResult
    /\ historySaved = "none"
    /\ trace = <<>>

\* the popup before any click, the content script injected
PopupAtRest ==
    /\ loaded = TRUE
    /\ op = "idle"
    /\ attempt = 0
    /\ probes = 0
    /\ injections = 0
    /\ sent = 0
    /\ saveHistory = TRUE
    /\ outcome = "none"
    /\ status = NoStatus
    /\ conversionHistory = <<>>
    /\ historyAdds = 0
    /\ requests = 0
    /\ exported = NoFile
    /\ opResult = NoOp
    /\ ops = 0
    /\ passes = NoPasses
    /\ ServicesAtRest

InitWith(pool) ==
    /\ conversionMap \in StoredMaps(pool)
    /\ targetTags \in Selectors
    /\ text \in Pages
    /\ pc = "idle"
    /\ req = ""
    /\ last = NoPass
    /\ popup = "popup.js"
    /\ tabUrl = "https:"
    /\ PopupAtRest

\* the onMessage listener receives {action: 'convertText', tags} from the
\* popup, which sends the stored targetTags: convertTextAsync(request.tags)
\* starts and suspends in await getConversionMap()
ReceiveConvertText ==
    /\ pc = "idle"
    /\ pc' = "awaitMap"
    /\ req' = targetTags
    /\ UNCHANGED <<conversionMap, targetTags, text, last>>

OnConvertTextMessage == ReceiveConvertText /\ UNCHANGED <<popupVars, overlapVars, serviceVars, logVars>>

\* the pass has run: the page is as it left it
Finished(pass) ==
    /\ last' = pass
    /\ text' = pass.after

\* chrome.storage.local.get calls back: the rest of convertTextAsync runs to
\* completion and the result is handed to sendResponse
ConvertTextAsync ==
    /\ pc = "awaitMap"
    /\ Finished(convertTextAsync(req, getConversionMap(conversionMap), text))
    /\ pc' = "idle"
    /\ req' = ""
    /\ UNCHANGED <<conversionMap, targetTags>>
    /\ UNCHANGED <<popupVars, overlapVars, serviceVars, logVars>>

Next == OnConvertTextMessage \/ ConvertTextAsync

\* the extension as it runs: the stored map is one the extension stores
Init == InitWith(StorablePool)
Spec == Init /\ [][Next]_vars

\* createUnicodePattern and processTextNodes on every conversion map: a key
\* may be any character, those with a meaning in pattern syntax included
InitAnyMap == InitWith(StorablePool \cup SyntaxPool)
SpecAnyMap == InitAnyMap /\ [][Next]_vars

---------------------------------------------------------------------------
(* The popup's convert handler: PopupController.handleConvert with           *)
(* ConversionController.executeConversion and MessageService, or popup.js's  *)
(* click handler with its own ensureContentScript                            *)

\* MessageService.retryConfig.maxRetries, and maxRetries of popup.js
maxRetries == 3

\* StorageService.maxHistoryEntries, and the 50 of saveHistoryEntry
maxHistoryEntries == 50

\* the protocols a tab's URL can have
TabUrls == {"https:", "file:", "chrome:"}

\* what tab.url can be: a URL of one of these protocols, "" for a tab without
\* url, "example" for a string that new URL() does not parse
GateUrls ==
    {"https:", "http:", "chrome:", "chrome-extension:", "moz-extension:", "file:",
     "", "example"}

\* a check that refuses the listed protocols and lets every other URL pass
isUrlAllowed_DenyList(url) == url \notin {"chrome:", "chrome-extension:", "file:", "example"}

\* common.js isUrlAllowed, on the URL's protocol
isUrlAllowed(url) == url \in {"http:", "https:"}

\* MessageService.validateTab: !tab.url, then isUrlAllowed(tab.url)
validateTab(url) == url # "" /\ isUrlAllowed(url)

\* popup.js: neither tab.url.startsWith('file://') nor one of the extension
\* and browser page prefixes
PopupJsAccepts(url) == url \notin {"file:", "chrome:", "chrome-extension:", "moz-extension:"}

\* the status the handler shows for a tab it does not convert
BlockedStatus ==
    IF popup = "controller"
        THEN [success |-> FALSE, message |-> "Conversion process failed", count |-> 0]
    ELSE IF tabUrl = "file:"
        THEN [success |-> FALSE, message |-> "errorFileUrl", count |-> 0]
    ELSE [success |-> FALSE, message |-> "errorChromePage", count |-> 0]

\* the status the handler shows when the channel or the message failed
ChannelFailureStatus ==
    IF popup = "controller"
        THEN [success |-> FALSE, message |-> "Conversion process failed", count |-> 0]
        ELSE [success |-> FALSE, message |-> "errorConnection", count |-> 0]

\* an addition without the splice
UpdatedHistory_Uncut(entry, history) == <<entry>> \o history

\* [entry, ...history] cut to maxHistoryEntries
UpdatedHistory(entry, history) ==
    LET updatedHistory == <<entry>> \o history IN
    IF Len(updatedHistory) > maxHistoryEntries
        THEN SubSeq(updatedHistory, 1, maxHistoryEntries)
        ELSE updatedHistory

\* a history entry for every successful response
RecordsHistory_AnyCount(sh, response) == sh /\ response.success

\* options.saveHistory !== false && result.success && result.count > 0
\* (popup.js: response.success && response.count > 0)
RecordsHistory(sh, response) == sh /\ response.success /\ response.count > 0

\* MessageService.retryConfig.baseDelay and maxDelay, in milliseconds
baseDelay == 200
maxDelay == 1000

\* the same delay after every injection
WaitTime_Flat(n) == baseDelay

\* Math.min(baseDelay * attempt, maxDelay); popup.js waits attempt * 200
WaitTime(n) ==
    IF popup = "controller"
        THEN (IF baseDelay * n < maxDelay THEN baseDelay * n ELSE maxDelay)
        ELSE n * 200

\* the steps of ensureContentScript: a ping and whether it was answered with
\* its 'ready', an executeScript call, a delay
Probe(ok) == [step |-> "probe", ok |-> ok, ms |-> 0]
Injection == [step |-> "inject", ok |-> FALSE, ms |-> 0]
Wait(ms)  == [step |-> "wait", ok |-> FALSE, ms |-> ms]

\* safeExecute's createFailure('Conversion process failed', error)
FailureResult ==
    [settled |-> TRUE, success |-> FALSE, message |-> "Conversion process failed",
     count |-> 0]

\* a handler that lets the failure of addEntry end the conversion
Returned_HistoryFails(response, saved) ==
    IF saved = "failed"
        THEN FailureResult
        ELSE [settled |-> TRUE, success |-> response.success,
              message |-> response.message, count |-> response.count]

\* executeConversion's return after the history step: result.success,
\* result.message, result.count || 0, whatever addEntry returned
Returned(response, saved) ==
    [settled |-> TRUE, success |-> response.success, message |-> response.message,
     count |-> response.count]

\* the click: the active tab is looked up and checked; the controller shows
\* statusConverting first
ClickConvert ==
    /\ op = "idle"
    /\ requests < MaxRequests
    /\ requests' = requests + 1
    /\ \E sh \in (IF popup = "controller" THEN BOOLEAN ELSE {TRUE}) : saveHistory' = sh
    /\ probes' = 0
    /\ injections' = 0
    /\ sent' = 0
    /\ historyAdds' = 0
    /\ IF (popup = "controller" /\ validateTab(tabUrl))
              \/ (popup = "popup.js" /\ PopupJsAccepts(tabUrl))
           THEN /\ op' = "probing"
                /\ attempt' = 1
                /\ outcome' = "none"
                /\ status' = IF popup = "controller"
                                 THEN [success |-> TRUE, message |-> "statusConverting",
                                       count |-> 0]
                                 ELSE status
           ELSE /\ op' = "done"
                /\ attempt' = 0
                /\ outcome' = "blocked"
                /\ status' = BlockedStatus
    /\ UNCHANGED <<contentVars, popup, tabUrl, loaded, conversionHistory>>
    /\ UNCHANGED <<exported, opResult, ops, passes>>
    /\ UNCHANGED serviceVars
    /\ trace' = <<>>
    /\ historySaved' = "none"
    /\ returned' = IF popup = "controller" /\ ~validateTab(tabUrl)
                       THEN FailureResult
                       ELSE NoResult

\* ensureContentScript: the ping of this attempt is answered or not
PingContentScript ==
    /\ op = "probing"
    /\ probes' = probes + 1
    /\ \E ok \in {FALSE, loaded} :
        /\ op' = IF ok THEN "ready"
                 ELSE IF attempt < maxRetries THEN "injecting"
                 ELSE "failed"
        /\ trace' = Append(trace, Probe(ok))
    /\ UNCHANGED <<returned, historySaved>>
    /\ UNCHANGED <<contentVars, popup, tabUrl, loaded, attempt, injections, sent,
                   saveHistory, outcome, status, conversionHistory, historyAdds, requests>>
    /\ UNCHANGED <<exported, opResult, ops, passes>>
    /\ UNCHANGED serviceVars

\* ensureContentScript: chrome.scripting.executeScript succeeds or not.
\* MessageService.injectContentScript returns its failure, so the delay
\* follows either way; popup.js catches the rejection and skips the delay.
InjectContentScript ==
    /\ op = "injecting"
    /\ injections' = injections + 1
    /\ \E ok \in BOOLEAN :
        /\ loaded' = (loaded \/ ok)
        /\ IF ok \/ popup = "controller"
               THEN op' = "waiting" /\ attempt' = attempt
               ELSE op' = "probing" /\ attempt' = attempt + 1
    /\ UNCHANGED <<contentVars, popup, tabUrl, probes, sent, saveHistory, outcome,
                   status, conversionHistory, historyAdds, requests>>
    /\ UNCHANGED <<exported, opResult, ops, passes>>
    /\ UNCHANGED serviceVars
    /\ trace' = Append(trace, Injection)
    /\ UNCHANGED <<returned, historySaved>>

\* a loop that does not count the attempt
WaitAfterInject_SameAttempt ==
    /\ op = "waiting"
    /\ op' = "probing"
    /\ UNCHANGED <<contentVars, popup, tabUrl, loaded, attempt, probes, injections, sent,
                   saveHistory, outcome, status, conversionHistory, historyAdds, requests>>
    /\ UNCHANGED <<exported, opResult, ops, passes>>
    /\ UNCHANGED serviceVars
    /\ trace' = Append(trace, Wait(WaitTime(attempt)))
    /\ UNCHANGED <<returned, historySaved>>

\* ensureContentScript: the delay after the injection ends, the loop goes on
WaitAfterInject ==
    /\ op = "waiting"
    /\ op' = "probing"
    /\ attempt' = attempt + 1
    /\ UNCHANGED <<contentVars, popup, tabUrl, loaded, probes, injections, sent,
                   saveHistory, outcome, status, conversionHistory, historyAdds, requests>>
    /\ UNCHANGED <<exported, opResult, ops, passes>>
    /\ UNCHANGED serviceVars
    /\ trace' = Append(trace, Wait(WaitTime(attempt)))
    /\ UNCHANGED <<returned, historySaved>>

\* ensureContentScript returned its failure (or threw lastError): the
\* handler shows the failure and sends nothing
ChannelFailed ==
    /\ op = "failed"
    /\ op' = "done"
    /\ outcome' = "channelFailed"
    /\ status' = ChannelFailureStatus
    /\ UNCHANGED <<contentVars, popup, tabUrl, loaded, attempt, probes, injections, sent,
                   saveHistory, conversionHistory, historyAdds, requests>>
    /\ UNCHANGED <<exported, opResult, ops, passes>>
    /\ UNCHANGED serviceVars
    /\ returned' = IF popup = "controller" THEN FailureResult ELSE returned
    /\ UNCHANGED <<trace, historySaved>>

\* the convertText message is sent with the stored targetTags and reaches the
\* content script's listener
SendConvertText ==
    /\ op = "ready"
    /\ loaded
    /\ ReceiveConvertText
    /\ op' = "sent"
    /\ sent' = sent + 1
    /\ UNCHANGED <<popup, tabUrl, loaded, attempt, probes, injections, saveHistory,
                   outcome, status, conversionHistory, historyAdds, requests>>
    /\ UNCHANGED <<exported, opResult, ops, passes>>
    /\ UNCHANGED serviceVars
    /\ UNCHANGED logVars

\* the convertText message is sent and chrome.tabs.sendMessage fails
SendConvertTextFails ==
    /\ op = "ready"
    /\ op' = "done"
    /\ sent' = sent + 1
    /\ outcome' = "sendFailed"
    /\ status' = ChannelFailureStatus
    /\ UNCHANGED <<contentVars, popup, tabUrl, loaded, attempt, probes, injections,
                   saveHistory, conversionHistory, historyAdds, requests>>
    /\ UNCHANGED <<exported, opResult, ops, passes>>
    /\ UNCHANGED serviceVars
    /\ returned' = IF popup = "controller" THEN FailureResult ELSE returned
    /\ UNCHANGED <<trace, historySaved>>

\* a handler that goes back to sending after a timeout
ConvertTextTimesOut_Retries ==
    /\ op = "sent"
    /\ popup = "controller"
    /\ op' = "ready"
    /\ UNCHANGED <<contentVars, popup, tabUrl, loaded, attempt, probes, injections, sent,
                   saveHistory, outcome, status, conversionHistory, historyAdds, requests>>
    /\ UNCHANGED <<exported, opResult, ops, passes>>
    /\ UNCHANGED serviceVars
    /\ UNCHANGED logVars

\* MessageService.sendMessage: the timeout fires before the response
ConvertTextTimesOut ==
    /\ op = "sent"
    /\ popup = "controller"
    /\ op' = "done"
    /\ outcome' = "timedOut"
    /\ status' = ChannelFailureStatus
    /\ UNCHANGED <<contentVars, popup, tabUrl, loaded, attempt, probes, injections, sent,
                   saveHistory, conversionHistory, historyAdds, requests>>
    /\ UNCHANGED <<exported, opResult, ops, passes>>
    /\ UNCHANGED serviceVars
    /\ returned' = IF popup = "controller" THEN FailureResult ELSE returned
    /\ UNCHANGED <<trace, historySaved>>

\* the response of the pass arrives: the history entry is added when the
\* pass succeeded with count > 0 (the write to storage succeeds or not) and
\* the status is shown
ReceiveResponse ==
    /\ op = "sent"
    /\ pc = "idle"
    /\ op' = "done"
    /\ outcome' = "answered"
    /\ LET response == last.result
           adds == RecordsHistory(saveHistory, response)
       IN  /\ historyAdds' = IF adds THEN historyAdds + 1 ELSE historyAdds
           /\ \E stored \in BOOLEAN :
               /\ conversionHistory' =
                      IF adds /\ stored
                          THEN UpdatedHistory([url |-> tabUrl, count |-> response.count],
                                              conversionHistory)
                          ELSE conversionHistory
               /\ historySaved' = IF ~adds THEN "none"
                                  ELSE IF stored THEN "saved" ELSE "failed"
               /\ returned' = IF popup = "controller"
                                  THEN Returned(response, historySaved')
                                  ELSE returned
           /\ status' =
               IF popup = "popup.js"
                   THEN [success |-> response.success, message |-> response.message,
                         count |-> response.count]
               ELSE IF response.count > 0
                   THEN [success |-> TRUE, message |-> response.message,
                         count |-> response.count]
               ELSE [success |-> TRUE, message |-> "statusNoTargetChars", count |-> 0]
    /\ UNCHANGED <<contentVars, popup, tabUrl, loaded, attempt, probes, injections, sent,
                   saveHistory, requests>>
    /\ UNCHANGED <<exported, opResult, ops, passes>>
    /\ UNCHANGED serviceVars
    /\ UNCHANGED trace

\* the handler has returned: the popup takes the next click
HandlerReturns ==
    /\ op = "done"
    /\ op' = "idle"
    /\ UNCHANGED <<contentVars, popup, tabUrl, loaded, attempt, probes, injections, sent,
                   saveHistory, outcome, status, conversionHistory, historyAdds, requests>>
    /\ UNCHANGED <<exported, opResult, ops, passes>>
    /\ UNCHANGED serviceVars
    /\ UNCHANGED logVars

NextRequest ==
    \/ ClickConvert
    \/ PingContentScript
    \/ InjectContentScript
    \/ WaitAfterInject
    \/ ChannelFailed
    \/ SendConvertText
    \/ SendConvertTextFails
    \/ ConvertTextTimesOut
    \/ ConvertTextAsync
    \/ ReceiveResponse
    \/ HandlerReturns

\* the pages of the tab the popup converts
RequestPages == { txt \in Pages : TotalLen(txt) <= MaxRequestLen }

InitRequest ==
    /\ conversionMap \in {[present |-> FALSE, entries |-> <<>>]}
    /\ targetTags \in Selectors
    /\ text \in RequestPages
    /\ pc = "idle"
    /\ req = ""
    /\ last = NoPass
    /\ popup \in {"controller", "popup.js"}
    /\ tabUrl \in TabUrls
    /\ loaded \in BOOLEAN
    /\ op = "idle"
    /\ attempt = 0
    /\ probes = 0
    /\ injections = 0
    /\ sent = 0
    /\ saveHistory = TRUE
    /\ outcome = "none"
    /\ status = NoStatus
    /\ conversionHistory = <<>>
    /\ historyAdds = 0
    /\ requests = 0
    /\ exported = NoFile
    /\ opResult = NoOp
    /\ ops = 0
    /\ passes = NoPasses
    /\ ServicesAtRest

SpecRequest == InitRequest /\ [][NextRequest]_vars

\* executeConversion on a tab of any kind: the popup is PopupController
InitGate ==
    /\ conversionMap = [present |-> FALSE, entries |-> <<>>]
    /\ targetTags \in {"p", "div"}
    /\ text \in RequestPages
    /\ pc = "idle"
    /\ req = ""
    /\ last = NoPass
    /\ popup = "controller"
    /\ tabUrl \in GateUrls
    /\ loaded \in BOOLEAN
    /\ op = "idle"
    /\ attempt = 0
    /\ probes = 0
    /\ injections = 0
    /\ sent = 0
    /\ saveHistory = TRUE
    /\ outcome = "none"
    /\ status = NoStatus
    /\ conversionHistory = <<>>
    /\ historyAdds = 0
    /\ requests = 0
    /\ exported = NoFile
    /\ opResult = NoOp
    /\ ops = 0
    /\ passes = NoPasses
    /\ ServicesAtRest

SpecGate == InitGate /\ [][NextRequest]_vars

\* every promise the channel loop awaits settles: the ping is answered or
\* times out, executeScript resolves or rejects, the delay ends
SpecRequestFair ==
    /\ SpecRequest
    /\ WF_vars(PingContentScript)
    /\ WF_vars(InjectContentScript)
    /\ WF_vars(WaitAfterInject)

---------------------------------------------------------------------------
(* The popup's settings operations on the stored conversion map.  The      *)
(* controller popup is PopupController with ConversionController,          *)
(* StorageService and UIRenderer; the popup.js popup is popup.js with      *)
(* ui.js and storage.js.                                                   *)

\* the code units of the characters typed into the popup's forms and written
\* to exported files
FormCh(c) ==
    CASE c = "U+2215" -> 8725
      [] c = "U" -> 85
      [] c = "+" -> 43
      [] c = "a" -> 97
      [] c = "b" -> 98

\* the entries the stored map may grow to
MaxEntries == 4

\* the settings operations of one run
MaxOps == 3

\* String.prototype.toUpperCase on one character of a hexadecimal number
ToUpperCase(c) == IF c >= 97 /\ c <= 122 THEN c - 32 ELSE c

\* /^\\u[0-9A-Fa-f]{4}$/i.test(s)
IsUnicodeFormatAnyCase(s) ==
    /\ Len(s) = 6
    /\ s[1] = Ch("\\")
    /\ s[2] \in {Ch("u"), FormCh("U")}
    /\ \A i \in 3..6 : IsHexDigit(s[i])

\* /^U\+[0-9A-Fa-f]{4}$/i.test(s)
IsUPlusFormat(s) ==
    /\ Len(s) = 6
    /\ s[1] \in {FormCh("U"), Ch("u")}
    /\ s[2] = FormCh("+")
    /\ \A i \in 3..6 : IsHexDigit(s[i])

\* '\\u' + hex.toUpperCase() for the four digits after the two-character prefix
BackslashUKey(s) ==
    << Ch("\\"), Ch("u"),
       ToUpperCase(s[3]), ToUpperCase(s[4]), ToUpperCase(s[5]), ToUpperCase(s[6]) >>

\* `U+${unicodeKey.substring(2).toUpperCase()}`
UPlusKey(s) ==
    << FormCh("U"), FormCh("+"),
       ToUpperCase(s[3]), ToUpperCase(s[4]), ToUpperCase(s[5]), ToUpperCase(s[6]) >>

\* obj[k] = v: an own property keeps its place, a new one is added last
Put(map, k, v) ==
    IF HasKey(map, k)
    THEN [i \in 1..Len(map) |->
            IF map[i].key = k THEN [key |-> k, value |-> v] ELSE map[i]]
    ELSE Append(map, [key |-> k, value |-> v])

\* delete obj[k]
Delete(map, k) == SelectSeq(map, LAMBDA e : e.key # k)

\* entries.forEach(([k, v]) => obj[k] = v) onto acc
RECURSIVE PutAll(_, _)
PutAll(acc, entries) ==
    IF entries = <<>> THEN acc
    ELSE PutAll(Put(acc, Head(entries).key, Head(entries).value), Tail(entries))

\* the key handleExportSettings writes for a stored key
exportKey(unicodeKey) ==
    IF IsUnicodeFormatAnyCase(unicodeKey) THEN UPlusKey(unicodeKey) ELSE unicodeKey

\* handleExportSettings: the object written to the file
exportMap(map) ==
    PutAll(<<>>, [i \in 1..Len(map) |-> [key |-> exportKey(map[i].key), value |-> map[i].value]])

\* the key handleImportSettings stores for a key of the file
convertedKey(key) ==
    IF IsUPlusFormat(key) THEN BackslashUKey(key)
    ELSE IF Len(key) = 1 /\ key[1] > 127 THEN UnicodeKey(key[1])
    ELSE key

\* handleImportSettings: the object built from the file
convertedMap(importedMap) ==
    PutAll(<<>>, [i \in 1..Len(importedMap) |->
                    [key |-> convertedKey(importedMap[i].key), value |-> importedMap[i].value]])

\* the list item at index i dragged to index j
Move(map, i, j) ==
    LET without == [k \in 1..(Len(map) - 1) |-> IF k < i THEN map[k] ELSE map[k + 1]]
    IN  [k \in 1..Len(map) |->
            IF k < j THEN without[k]
            ELSE IF k = j THEN map[i]
            ELSE without[k - 1]]

\* what the user types into unicodeInput: the character U+02F8, the character
\* U+2215, a typed lower-case backslash-u form, a typed U+ form, an ASCII character, two characters, nothing
UnicodeInputs ==
    { <<Ch("U+02F8")>>,
      <<FormCh("U+2215")>>,
      << Ch("\\"), Ch("u"), 48, 50, 102, 56 >>,
      << FormCh("U"), FormCh("+"), 50, 50, 49, 53 >>,
      <<Ch(":")>>,
      <<FormCh("a"), FormCh("b")>>,
      <<>> }

\* what the user types into replaceInput or the edit prompt
ReplaceInputs == { <<Ch(";")>>, <<Ch(":")>>, <<FormCh("a"), FormCh("b")>>, <<>> }

\* hand-written files to import, besides the file exported last
HandFiles ==
    { << [key |-> << FormCh("U"), FormCh("+"), 50, 50, 49, 53 >>, value |-> <<Ch(";")>>] >>,
      << [key |-> <<Ch("U+02F8")>>, value |-> <<FormCh("a"), FormCh("b")>>] >>,
      << [key |-> UnicodeKey(Ch("U+02F8")), value |-> <<Ch(";")>>],
         [key |-> UnicodeKey(Ch("U+2024")), value |-> <<Ch(";")>>] >>,
      << [key |-> <<Ch(":")>>, value |-> <<Ch(";")>>] >> }

ImportFiles == HandFiles \cup (IF exported.present THEN {exported.entries} ELSE {})

\* a status of showStatus(false, message)
ErrorStatus(message) == [success |-> FALSE, message |-> message, count |-> 0]

\* a status of showStatus(true, message)
SuccessStatus(message) == [success |-> TRUE, message |-> message, count |-> 0]

\* an operation that returned before it touched the storage
Rejected == [success |-> FALSE, wrote |-> FALSE, writeFailed |-> FALSE,
             stored |-> conversionMap]

\* an operation of popup.js or ui.js that wrote the map: storage.js calls
\* chrome.storage.local.set({conversionMap: map}) without a callback
Stored(map) == [success |-> TRUE, wrote |-> TRUE, writeFailed |-> FALSE,
                stored |-> [present |-> TRUE, entries |-> map]]

\* ConversionController.updateConversionSettings({conversionMap: newMap}):
\* an invalid map throws inside safeExecute, a valid one is written with
\* StorageService.setConversionMap, whose result (ok) only decides whether
\* 'conversionMap' is pushed to updatedSettings
updateConversionSettings(newMap, ok) ==
    IF ~validateConversionMap(newMap)
    THEN Rejected
    ELSE [success |-> TRUE, wrote |-> TRUE, writeFailed |-> ~ok,
          stored  |-> IF ok THEN [present |-> TRUE, entries |-> newMap]
                      ELSE conversionMap]

\* the end of a settings operation: the storage as the operation left it, the
\* status it showed (NoStatus: none) and the record of the operation
Settled(name, file, r, shown) ==
    /\ ops < MaxOps
    /\ ops' = ops + 1
    /\ conversionMap' = r.stored
    /\ status' = IF shown = NoStatus THEN status ELSE shown
    /\ opResult' = [op |-> name, file |-> file, parsed |-> TRUE, wrote |-> r.wrote,
                    writeFailed |-> r.writeFailed, success |-> r.success,
                    shown |-> shown]
    /\ UNCHANGED <<text, pc, req, last, popup, tabUrl, loaded, op, attempt, probes,
                   injections, sent, saveHistory, outcome, conversionHistory,
                   historyAdds, requests, passes>>
    /\ UNCHANGED serviceVars
    /\ UNCHANGED logVars

\* the end of an import whose file JSON.parse does not take: the catch block
\* shows the failure, nothing is written
Unparsed(name, shown) ==
    /\ ops < MaxOps
    /\ ops' = ops + 1
    /\ status' = shown
    /\ opResult' = [op |-> name, file |-> <<>>, parsed |-> FALSE, wrote |-> FALSE,
                    writeFailed |-> FALSE, success |-> FALSE, shown |-> shown]
    /\ UNCHANGED <<contentVars, popup, tabUrl, loaded, op, attempt, probes, injections,
                   sent, saveHistory, outcome, conversionHistory, historyAdds,
                   requests, exported, passes>>
    /\ UNCHANGED <<serviceVars, logVars>>

\* the status a handler shows for the result of updateConversionSettings
UpdateStatus(r, message) ==
    IF r.success THEN SuccessStatus(message)
    ELSE ErrorStatus("Failed to update conversion settings")

\* handleAddConversion: the key for a well-formed unicodeInput
unicodeKeyOf(unicodeChar) ==
    IF IsUnicodeFormatAnyCase(unicodeChar) \/ IsUPlusFormat(unicodeChar)
    THEN BackslashUKey(unicodeChar)
    ELSE UnicodeKey(unicodeChar[1])

\* PopupController.handleAddConversion
handleAddConversion ==
    /\ popup = "controller"
    /\ \E unicodeChar \in UnicodeInputs, replaceChar \in ReplaceInputs, ok \in BOOLEAN :
        LET currentMap == getConversionMap(conversionMap)
            unicodeKey == unicodeKeyOf(unicodeChar)
            r          == updateConversionSettings(Put(currentMap, unicodeKey, replaceChar), ok)
        IN  /\ Len(currentMap) < MaxEntries
            /\ IF unicodeChar = <<>>
               THEN Settled("handleAddConversion", <<>>, Rejected, ErrorStatus("errorUnicodeRequired"))
               ELSE IF replaceChar = <<>>
               THEN Settled("handleAddConversion", <<>>, Rejected, ErrorStatus("errorReplacementRequired"))
               ELSE IF ~IsUnicodeFormatAnyCase(unicodeChar) /\ ~IsUPlusFormat(unicodeChar)
                       /\ Len(unicodeChar) = 1 /\ unicodeChar[1] <= 127
               THEN Settled("handleAddConversion", <<>>, Rejected, ErrorStatus("errorAsciiNotAllowed"))
               ELSE IF ~IsUnicodeFormatAnyCase(unicodeChar) /\ ~IsUPlusFormat(unicodeChar)
                       /\ Len(unicodeChar) # 1
               THEN Settled("handleAddConversion", <<>>, Rejected, ErrorStatus("errorInvalidUnicodeFormat"))
               ELSE IF HasKey(currentMap, unicodeKey)
               THEN Settled("handleAddConversion", <<>>, Rejected, ErrorStatus("errorCharacterExists"))
               ELSE Settled("handleAddConversion", <<>>, r, UpdateStatus(r, "successConversionAdded"))
    /\ UNCHANGED <<targetTags, exported>>

\* PopupController.handleEditConversion for a key of the list
handleEditConversion ==
    /\ popup = "controller"
    /\ \E i \in 1..Len(getConversionMap(conversionMap)), newChar \in ReplaceInputs,
          cancelled \in BOOLEAN, ok \in BOOLEAN :
        LET currentMap == getConversionMap(conversionMap)
            unicodeKey == currentMap[i].key
            r          == updateConversionSettings(Put(currentMap, unicodeKey, newChar), ok)
        IN  IF cancelled
            THEN Settled("handleEditConversion", <<>>, Rejected, NoStatus)
            ELSE IF Len(newChar) # 1
            THEN Settled("handleEditConversion", <<>>, Rejected, ErrorStatus("errorReplacementSingleChar"))
            ELSE Settled("handleEditConversion", <<>>, r, UpdateStatus(r, "successConversionUpdated"))
    /\ UNCHANGED <<targetTags, exported>>

\* PopupController.handleDeleteConversion for a key of the list
handleDeleteConversion ==
    /\ popup = "controller"
    /\ \E i \in 1..Len(getConversionMap(conversionMap)), ok \in BOOLEAN :
        LET currentMap == getConversionMap(conversionMap)
            r          == updateConversionSettings(Delete(currentMap, currentMap[i].key), ok)
        IN  Settled("handleDeleteConversion", <<>>, r, UpdateStatus(r, "successConversionDeleted"))
    /\ UNCHANGED <<targetTags, exported>>

\* PopupController.handleImportSettings
handleImportSettings ==
    /\ popup = "controller"
    /\ \/ Unparsed("handleImportSettings", ErrorStatus("errorImportFailed"))
       \/ \E importedMap \in ImportFiles, ok \in BOOLEAN :
            LET r == updateConversionSettings(convertedMap(importedMap), ok)
            IN  IF ~validateConversionMap(convertedMap(importedMap))
                THEN Settled("handleImportSettings", importedMap, Rejected,
                             ErrorStatus("errorImportFailed"))
                ELSE Settled("handleImportSettings", importedMap, r,
                             UpdateStatus(r, "successSettingsImported"))
    /\ UNCHANGED <<targetTags, exported>>

\* PopupController.handleExportSettings: the downloaded file
handleExportSettings ==
    /\ popup = "controller"
    /\ exported' = [present |-> TRUE, entries |-> exportMap(getConversionMap(conversionMap))]
    /\ Settled("handleExportSettings", <<>>,
               [Rejected EXCEPT !.success = TRUE], SuccessStatus("successSettingsExported"))
    /\ UNCHANGED targetTags

\* UIRenderer.initSortableList, onEnd: one item of the list dragged to another
\* place; the result of setConversionMap is not looked at
UIRenderer_onEnd ==
    /\ popup = "controller"
    /\ \E i, j \in 1..Len(getConversionMap(conversionMap)), ok \in BOOLEAN :
        LET currentMap == getConversionMap(conversionMap)
            newMap     == SelectSeq(Move(currentMap, i, j), LAMBDA e : e.value # <<>>)
        IN  /\ i # j
            /\ Settled("onEnd", <<>>,
                       [success |-> TRUE, wrote |-> TRUE, writeFailed |-> ~ok,
                        stored  |-> IF ok THEN [present |-> TRUE, entries |-> newMap]
                                    ELSE conversionMap],
                       NoStatus)
    /\ UNCHANGED <<targetTags, exported>>

\* ConversionController.resetConversionMap over StorageService.resetSettings:
\* Promise.all of the two writes, whose results are not looked at
resetConversionMap ==
    /\ popup = "controller"
    /\ \E okMap \in BOOLEAN, okTags \in BOOLEAN :
        /\ Settled("resetConversionMap", <<>>,
                   [success |-> TRUE, wrote |-> TRUE, writeFailed |-> ~okMap \/ ~okTags,
                    stored  |-> IF okMap THEN [present |-> TRUE, entries |-> DEFAULT_MAP]
                                ELSE conversionMap],
                   NoStatus)
        /\ targetTags' = IF okTags THEN "p" ELSE targetTags
    /\ UNCHANGED exported

\* ui.js handleAddFormSubmit: the key is made of the first character typed
handleAddFormSubmit ==
    /\ popup = "popup.js"
    /\ \E unicodeChar \in UnicodeInputs, replaceChar \in ReplaceInputs :
        LET map        == getConversionMap(conversionMap)
            unicodeKey == UnicodeKey(unicodeChar[1])
        IN  /\ Len(map) < MaxEntries
            /\ IF unicodeChar = <<>> \/ replaceChar = <<>>
               THEN Settled("handleAddFormSubmit", <<>>, Rejected, NoStatus)
               ELSE IF HasKey(map, unicodeKey)
               THEN Settled("handleAddFormSubmit", <<>>, Rejected, NoStatus)
               ELSE Settled("handleAddFormSubmit", <<>>, Stored(Put(map, unicodeKey, replaceChar)), NoStatus)
    /\ UNCHANGED <<targetTags, exported>>

\* ui.js handleConversionListClick on the delete or the edit button of an item
handleConversionListClick ==
    /\ popup = "popup.js"
    /\ \E i \in 1..Len(getConversionMap(conversionMap)), button \in {"deleteBtn", "editBtn"},
          newChar \in ReplaceInputs, cancelled \in BOOLEAN :
        LET map == getConversionMap(conversionMap)
            key == map[i].key
        IN  IF button = "deleteBtn"
            THEN Settled("handleConversionListClick", <<>>, Stored(Delete(map, key)), NoStatus)
            ELSE IF cancelled \/ Len(newChar) # 1
            THEN Settled("handleConversionListClick", <<>>, Rejected, NoStatus)
            ELSE Settled("handleConversionListClick", <<>>, Stored(Put(map, key, newChar)), NoStatus)
    /\ UNCHANGED <<targetTags, exported>>

\* popup.js: every key of the file is in \uXXXX form and every value is one
\* character
ImportIsValid(map) ==
    \A i \in 1..Len(map) : IsUnicodeFormat(map[i].key) /\ Len(map[i].value) = 1

\* popup.js importInput change
importInputChange ==
    /\ popup = "popup.js"
    /\ \/ Unparsed("importInputChange", ErrorStatus("statusImportError"))
       \/ \E map \in ImportFiles :
            IF ImportIsValid(map)
            THEN Settled("importInputChange", map, Stored(map),
                         SuccessStatus("statusImportSuccess"))
            ELSE Settled("importInputChange", map, Rejected,
                         ErrorStatus("statusImportError"))
    /\ UNCHANGED <<targetTags, exported>>

\* popup.js exportBtn click: JSON.stringify(map)
exportBtnClick ==
    /\ popup = "popup.js"
    /\ exported' = [present |-> TRUE, entries |-> getConversionMap(conversionMap)]
    /\ Settled("exportBtnClick", <<>>, [Rejected EXCEPT !.success = TRUE], NoStatus)
    /\ UNCHANGED targetTags

\* ui.js initSortableList, onEnd
ui_onEnd ==
    /\ popup = "popup.js"
    /\ \E i, j \in 1..Len(getConversionMap(conversionMap)) :
        /\ i # j
        /\ Settled("onEnd", <<>>, Stored(Move(getConversionMap(conversionMap), i, j)), NoStatus)
    /\ UNCHANGED <<targetTags, exported>>

NextSettings ==
    \/ handleAddConversion
    \/ handleEditConversion
    \/ handleDeleteConversion
    \/ handleImportSettings
    \/ handleExportSettings
    \/ UIRenderer_onEnd
    \/ resetConversionMap
    \/ handleAddFormSubmit
    \/ handleConversionListClick
    \/ importInputChange
    \/ exportBtnClick
    \/ ui_onEnd

\* the popup opened on an installation: background.js has stored the default
\* map, or the storage holds no map
InitSettings ==
    /\ conversionMap \in { [present |-> FALSE, entries |-> <<>>],
                           [present |-> TRUE, entries |-> DEFAULT_MAP] }
    /\ targetTags \in {"p", "div"}
    /\ text = [n \in TextNodes |-> <<>>]
    /\ pc = "idle"
    /\ req = ""
    /\ last = NoPass
    /\ popup \in {"controller", "popup.js"}
    /\ tabUrl = "https:"
    /\ PopupAtRest

SpecSettings == InitSettings /\ [][NextSettings]_vars

---------------------------------------------------------------------------
(* The stored conversion history: additions by StorageService (controller  *)
(* popup) and storage.js (popup.js popup), and clears.  The popup issues   *)
(* them one at a time.                                                      *)

\* the entries stored in one run
MaxHistoryAdds == 52

\* storage.js saveHistoryEntry: history.unshift(entry), history.slice(0, 50)
SavedHistory(entry, history) ==
    LET unshifted == <<entry>> \o history IN
    IF Len(unshifted) > 50 THEN SubSeq(unshifted, 1, 50) ELSE unshifted

\* the entry of a conversion: the date is later than that of every entry
\* stored before
NewEntry == [url |-> tabUrl, count |-> 1, date |-> historyAdds + 1]

\* the end of a history operation: the stored history as the operation left
\* it and the record of the operation
HistorySettled(name, history, ok) ==
    /\ conversionHistory' = IF ok THEN history ELSE conversionHistory
    /\ historyAdds' = IF ok /\ history # <<>> THEN historyAdds + 1 ELSE historyAdds
    /\ opResult' = [op |-> name, file |-> <<>>, parsed |-> TRUE, wrote |-> TRUE,
                    writeFailed |-> ~ok,
                    success |-> TRUE, shown |-> NoStatus]
    /\ UNCHANGED <<contentVars, popup, tabUrl, loaded, op, attempt, probes, injections,
                   sent, saveHistory, outcome, status, requests, exported, ops,
                   passes>>
    /\ UNCHANGED serviceVars
    /\ UNCHANGED logVars

\* StorageService.addHistoryEntry: the result of set is not looked at
addHistoryEntry ==
    /\ popup = "controller"
    /\ historyAdds < MaxHistoryAdds
    /\ \E ok \in BOOLEAN :
        HistorySettled("addHistoryEntry", UpdatedHistory(NewEntry, conversionHistory), ok)

\* StorageService.clearHistory: set(CONVERSION_HISTORY, [])
StorageService_clearHistory ==
    /\ popup = "controller"
    /\ conversionHistory # <<>>
    /\ \E ok \in BOOLEAN : HistorySettled("clearHistory", <<>>, ok)

\* storage.js saveHistoryEntry: chrome.storage.local.set stores the history
saveHistoryEntry ==
    /\ popup = "popup.js"
    /\ historyAdds < MaxHistoryAdds
    /\ HistorySettled("saveHistoryEntry", SavedHistory(NewEntry, conversionHistory), TRUE)

\* storage.js clearHistory, called by ui.js handleClearHistoryClick
clearHistory ==
    /\ popup = "popup.js"
    /\ conversionHistory # <<>>
    /\ HistorySettled("clearHistory", <<>>, TRUE)

NextHistory ==
    \/ addHistoryEntry
    \/ StorageService_clearHistory
    \/ saveHistoryEntry
    \/ clearHistory

\* the popup opened on an installation: background.js has stored an empty
\* history
InitHistory ==
    /\ conversionMap = [present |-> TRUE, entries |-> DEFAULT_MAP]
    /\ targetTags = "p"
    /\ text = [n \in TextNodes |-> <<>>]
    /\ pc = "idle"
    /\ req = ""
    /\ last = NoPass
    /\ popup \in {"controller", "popup.js"}
    /\ tabUrl = "https:"
    /\ PopupAtRest

SpecHistory == InitHistory /\ [][NextHistory]_vars

---------------------------------------------------------------------------
(* convertText requests that overlap on one page: the listener starts       *)
(* convertTextAsync for each message; a call suspends once, in               *)
(* await getConversionMap(), and runs from there to its return.             *)

\* the onMessage listener receives the next {action: 'convertText', tags}:
\* convertTextAsync(request.tags) starts and suspends in await getConversionMap()
onMessageConvertText ==
    /\ \E k \in 1..MaxOverlap :
        /\ passes[k].pc = "none"
        /\ \A j \in 1..(k - 1) : passes[j].pc # "none"
        /\ passes' = [passes EXCEPT ![k] = [pc |-> "awaitMap", selector |-> targetTags,
                                            pass |-> NoPass]]
    /\ UNCHANGED <<contentVars, popupVars, serviceVars, logVars>>

\* the pass of request k has run: the page is as it left it
Resumed(k, pass) ==
    /\ passes' = [passes EXCEPT ![k] = [pc |-> "done", selector |-> passes[k].selector,
                                        pass |-> pass]]
    /\ text' = pass.after

\* chrome.storage.local.get calls back for one of the suspended calls: the
\* rest of that convertTextAsync runs to completion on the page as it is now
convertTextAsyncResumes ==
    /\ \E k \in 1..MaxOverlap :
        /\ passes[k].pc = "awaitMap"
        /\ Resumed(k, convertTextAsync(passes[k].selector,
                                       getConversionMap(conversionMap), text))
    /\ UNCHANGED <<conversionMap, targetTags, pc, req, last, popupVars, serviceVars,
                   logVars>>

NextOverlap == onMessageConvertText \/ convertTextAsyncResumes

\* a page and a stored map, no request yet
InitOverlap == InitWith(StorablePool)

SpecOverlap == InitOverlap /\ [][NextOverlap]_vars

---------------------------------------------------------------------------
(* background.js: the runtime.onInstalled listener *)

\* details.reason of an onInstalled event
InstallReasons == {"install", "update", "chrome_update"}

\* details.previousVersion: present only under reason 'update'
PreviousVersions == {"", "1.", "2."}

\* the history entries an earlier version has stored
OldHistories ==
    { <<>>,
      <<[url |-> "https:", count |-> 1, date |-> 1]>>,
      <<[url |-> "https:", count |-> 2, date |-> 2],
        [url |-> "https:", count |-> 1, date |-> 1]>> }

\* what the storage holds under the three keys
Storage(map, tags, history) ==
    [conversionMap |-> map, targetTags |-> tags, conversionHistory |-> history]

\* a listener that initialises the storage on every event
InstalledStorage_Always(reason, storage) ==
    Storage([present |-> TRUE, entries |-> DEFAULT_MAP], "p", <<>>)

\* the listener's chrome.storage.local.set under reason 'install'; the
\* 'update' branch only logs
InstalledStorage(reason, storage) ==
    IF reason = "install"
        THEN Storage([present |-> TRUE, entries |-> DEFAULT_MAP], "p", <<>>)
        ELSE storage

\* chrome.runtime.onInstalled fires with details
onInstalled ==
    /\ \E reason \in InstallReasons, previousVersion \in PreviousVersions :
        /\ (reason = "update") = (previousVersion # "")
        /\ installed' = [reason |-> reason, previousVersion |-> previousVersion]
        /\ LET storage == InstalledStorage(reason,
                              Storage(conversionMap, targetTags, conversionHistory))
           IN  /\ conversionMap' = storage.conversionMap
               /\ targetTags' = storage.targetTags
               /\ conversionHistory' = storage.conversionHistory
    /\ UNCHANGED <<text, pc, req, last, popup, tabUrl, loaded, op, attempt, probes,
                   injections, sent, saveHistory, outcome, status, historyAdds,
                   requests, exported, opResult, ops, passes>>
    /\ UNCHANGED <<send, preview, adders, container, logVars>>

NextInstall == onInstalled

\* the storage as any earlier run of the extension may have left it
InitInstall ==
    /\ conversionMap \in StoredMaps(StorablePool)
    /\ targetTags \in Selectors
    /\ text = [n \in TextNodes |-> <<>>]
    /\ pc = "idle"
    /\ req = ""
    /\ last = NoPass
    /\ popup = "controller"
    /\ tabUrl = "https:"
    /\ loaded = FALSE
    /\ op = "idle"
    /\ attempt = 0
    /\ probes = 0
    /\ injections = 0
    /\ sent = 0
    /\ saveHistory = TRUE
    /\ outcome = "none"
    /\ status = NoStatus
    /\ conversionHistory \in OldHistories
    /\ historyAdds = 0
    /\ requests = 0
    /\ exported = NoFile
    /\ opResult = NoOp
    /\ ops = 0
    /\ passes = NoPasses
    /\ ServicesAtRest

SpecInstall == InitInstall /\ [][NextInstall]_vars

---------------------------------------------------------------------------
(* MessageService.sendMessage: safeExecute around a promise that the       *)
(* response callback of chrome.tabs.sendMessage and a timer both settle    *)

\* sendMessage calls in a run
MaxCalls == 3

\* the messages sent with their timeouts: the ping (2000 ms) and convertText
\* (the default 5000 ms)
Messages == { [action |-> "ping", timeout |-> 2000],
              [action |-> "convertText", timeout |-> 5000] }

\* what the callback can be given as the response
Responses == {"status ready", "conversion result", "undefined"}

\* a promise the second resolve or reject overwrites
Settle_Last(s, state, value) == [s EXCEPT !.promise = state, !.value = value]

\* resolve or reject on a promise: only the first one settles it
Settle(s, state, value) ==
    IF s.promise = "pending"
        THEN [s EXCEPT !.promise = state, !.value = value]
        ELSE s

\* clearTimeout(timeoutId)
clearTimeout(s) == IF s.timer = "armed" THEN [s EXCEPT !.timer = "cleared"] ELSE s

\* createSuccess(result) and createFailure(errorMessage, error) of safeExecute
SendSuccess(data) == [success |-> TRUE, data |-> data, message |-> ""]
SendFailure ==
    [success |-> FALSE, data |-> "", message |-> "Failed to send message to content script"]

\* sendMessage is called (the call before it has returned; each call has its
\* own promise, timer and callback): the executor arms the timer and calls
\* chrome.tabs.sendMessage, which registers the callback or throws
sendMessage ==
    /\ send.calls = 0 \/ send.results = 1
    /\ send.calls < MaxCalls
    /\ \E m \in Messages, throws \in BOOLEAN :
        send' = [calls |-> send.calls + 1, message |-> m.action, timeout |-> m.timeout,
                 promise |-> IF throws THEN "rejected" ELSE "pending",
                 value |-> IF throws THEN "thrown" ELSE "",
                 timer |-> "armed",
                 callback |-> IF throws THEN "none" ELSE "registered",
                 lastError |-> FALSE, response |-> "", order |-> <<>>, results |-> 0,
                 result |-> NoSend.result]
    /\ UNCHANGED <<contentVars, popupVars, overlapVars, installed, preview, adders, container,
                   logVars>>

\* the timer fires: reject(new Error('Message timeout after ...'))
sendMessageTimeout ==
    /\ send.timer = "armed"
    /\ send' = Settle([send EXCEPT !.timer = "fired",
                                   !.order = Append(send.order, "timeout")],
                      "rejected", "timeout")
    /\ UNCHANGED <<contentVars, popupVars, overlapVars, installed, preview, adders, container,
                   logVars>>

\* chrome calls the response callback, with runtime.lastError set or with
\* the response: clearTimeout, then reject or resolve
sendMessageCallback ==
    /\ send.callback = "registered"
    /\ \E lastError \in BOOLEAN :
        \E response \in (IF lastError THEN {"undefined"} ELSE Responses) :
            send' = LET s == clearTimeout(
                                 [send EXCEPT !.callback = "called",
                                              !.lastError = lastError,
                                              !.response = response,
                                              !.order = Append(send.order, "callback")])
                    IN  IF lastError
                            THEN Settle(s, "rejected", "lastError")
                            ELSE Settle(s, "resolved", response)
    /\ UNCHANGED <<contentVars, popupVars, overlapVars, installed, preview, adders, container,
                   logVars>>

\* the await of safeExecute resumes on the settled promise and sendMessage
\* returns createSuccess(result) or createFailure(errorMessage, error)
sendMessageReturns ==
    /\ send.promise \in {"resolved", "rejected"}
    /\ send.results = 0
    /\ send' = [send EXCEPT !.results = send.results + 1,
                            !.result = IF send.promise = "resolved"
                                           THEN SendSuccess(send.value)
                                           ELSE SendFailure]
    /\ UNCHANGED <<contentVars, popupVars, overlapVars, installed, preview, adders, container,
                   logVars>>

NextSend ==
    \/ sendMessage
    \/ sendMessageTimeout
    \/ sendMessageCallback
    \/ sendMessageReturns

InitSend ==
    /\ conversionMap = [present |-> TRUE, entries |-> DEFAULT_MAP]
    /\ targetTags = "p"
    /\ text = [n \in TextNodes |-> <<>>]
    /\ pc = "idle"
    /\ req = ""
    /\ last = NoPass
    /\ popup = "controller"
    /\ tabUrl = "https:"
    /\ PopupAtRest

SpecSend == InitSend /\ [][NextSend]_vars

\* the timer runs and the continuation of a settled promise is scheduled
SpecSendFair ==
    /\ SpecSend
    /\ WF_vars(sendMessageTimeout)
    /\ WF_vars(sendMessageReturns)

---------------------------------------------------------------------------
(* ConversionController.generatePreview, in its two versions: the one that *)
(* decodes \uXXXX keys and the one that builds the class from the keys     *)

\* generatePreview calls in a run
MaxPreviews == 1

\* the sample texts typed into the preview: the empty one is refused
SampleTexts == Texts

\* the maps passed as the second argument: none (the stored map is read)
\* or a map
PreviewMaps == StoredMaps(StorablePool)

\* unicodeChars: for every key in \uXXXX form, in the order of
\* Object.entries, the character it denotes, the key and the replacement
unicodeChars(map) ==
    LET decoded == [i \in 1..Len(map) |->
                       [char |-> IF IsUnicodeFormat(map[i].key)
                                     THEN DecodeUnicodeKey(map[i].key) ELSE 0,
                        key |-> map[i].key, replacement |-> map[i].value]]
    IN  SelectSeq(decoded, LAMBDA item : IsUnicodeFormat(item.key))

\* unicodeChars.find(item => item.char === match)
FindItem(items, c) == items[CHOOSE i \in 1..Len(items) :
                                /\ items[i].char = c
                                /\ \A j \in 1..(i - 1) : items[j].char # c]

\* sampleText.replace(/(c1|c2|...)/g, callback) over the escaped characters
\* of unicodeChars, from s[p] on
RECURSIVE PreviewReplaceFrom(_, _, _, _)
PreviewReplaceFrom(s, p, items, acc) ==
    IF p > Len(s) THEN acc
    ELSE IF \E i \in 1..Len(items) : items[i].char = s[p]
        THEN PreviewReplaceFrom(s, p + 1, items,
                 [success |-> TRUE,
                  converted |-> acc.converted \o FindItem(items, s[p]).replacement,
                  conversions |-> acc.conversions + 1])
        ELSE PreviewReplaceFrom(s, p + 1, items,
                 [acc EXCEPT !.converted = acc.converted \o <<s[p]>>])

\* safeExecute's failure: 'Failed to generate preview'
PreviewFailure == [success |-> FALSE, converted |-> <<>>, conversions |-> 0]

\* the version that decodes \uXXXX keys and skips every other key
PreviewDecoded(sampleText, map) ==
    IF sampleText = <<>> THEN PreviewFailure
    ELSE PreviewReplaceFrom(sampleText, 1, unicodeChars(map),
                            [success |-> TRUE, converted |-> <<>>, conversions |-> 0])

\* the class the version by keys has built, applied
PreviewApplied(sampleText, map, pattern) ==
    IF ~pattern.ok THEN PreviewFailure
    ELSE [success |-> TRUE,
          converted |-> Replace(sampleText, pattern, map).out,
          conversions |-> Replace(sampleText, pattern, map).conversions]

\* the version that builds new RegExp('[' + keys.join('') + ']', 'g') and
\* returns map[match] || match
PreviewByKeys(sampleText, map) ==
    IF sampleText = <<>> THEN PreviewFailure
    ELSE PreviewApplied(sampleText, map,
                        RegExp(<<Ch("[")>> \o Join(Keys(map)) \o <<Ch("]")>>))

\* the call ends: only the record of the call changes
Previewed(source, sampleText, map, result) ==
    /\ preview.calls < MaxPreviews
    /\ preview' = [calls |-> preview.calls + 1, source |-> source,
                   sampleText |-> sampleText, map |-> map, result |-> result]
    /\ UNCHANGED <<contentVars, popupVars, overlapVars, installed, send, adders, container,
                   logVars>>

\* generatePreview(sampleText, conversionMap) of the version that decodes
generatePreview ==
    \E sampleText \in SampleTexts, given \in PreviewMaps :
        Previewed("decoding", sampleText,
                  IF given.present THEN given.entries ELSE getConversionMap(conversionMap),
                  PreviewDecoded(sampleText,
                      IF given.present THEN given.entries
                                       ELSE getConversionMap(conversionMap)))

\* generatePreview(sampleText, conversionMap) of the version by keys
generatePreviewByKeys ==
    \E sampleText \in SampleTexts, given \in PreviewMaps :
        Previewed("keys", sampleText,
                  IF given.present THEN given.entries ELSE getConversionMap(conversionMap),
                  PreviewByKeys(sampleText,
                      IF given.present THEN given.entries
                                       ELSE getConversionMap(conversionMap)))

NextPreview == generatePreview \/ generatePreviewByKeys

\* the pages open while the popup previews
PreviewPages == { txt \in RequestPages : txt["t2"] = <<>> /\ txt["t3"] = <<>> }

\* a page and a stored map; the popup is PopupController
InitPreview ==
    /\ conversionMap \in StoredMaps(StorablePool)
    /\ targetTags = "p"
    /\ text \in PreviewPages
    /\ pc = "idle"
    /\ req = ""
    /\ last = NoPass
    /\ popup = "controller"
    /\ tabUrl = "https:"
    /\ PopupAtRest

SpecPreview == InitPreview /\ [][NextPreview]_vars

---------------------------------------------------------------------------
(* History additions that overlap: StorageService.addHistoryEntry and      *)
(* saveHistoryEntry of storage.js both await the read of                    *)
(* 'conversionHistory', prepend, and write the whole list back.  Two       *)
(* convert clicks (handleConvert has no guard against a second click) or   *)
(* two popup windows start two of them.                                    *)

\* the call of addition k ends or goes on
Adder(k, next) ==
    /\ adders' = [adders EXCEPT ![k] = next]
    /\ UNCHANGED <<contentVars, popup, tabUrl, loaded, op, attempt, probes, injections,
                   sent, saveHistory, outcome, status, historyAdds, requests, exported,
                   opResult, ops, passes, installed, send, preview, container,
                   logVars>>

\* addHistoryEntry(entry) / saveHistoryEntry(entry) is called: it suspends in
\* await getHistory()
addHistoryEntryStarts ==
    \E k \in 1..MaxAdders :
        /\ adders[k].pc = "idle"
        /\ \A j \in 1..(k - 1) : adders[j].pc # "idle"
        /\ Adder(k, [adders[k] EXCEPT !.pc = "awaitGet",
                                      !.entry = [url |-> tabUrl, count |-> 1, date |-> k]])
        /\ UNCHANGED conversionHistory

\* chrome.storage.local.get calls back: the addition has the list as it is
\* now, prepends its entry, cuts the list and calls set
getHistoryCallsBack ==
    \E k \in 1..MaxAdders :
        /\ adders[k].pc = "awaitGet"
        /\ Adder(k, [adders[k] EXCEPT !.pc = "awaitSet",
                                      !.history = UpdatedHistory(adders[k].entry,
                                                                 conversionHistory)])
        /\ UNCHANGED conversionHistory

\* chrome.storage.local.set has written the list of addition k, or has
\* failed (storage.js does not look; its write is taken to succeed)
setHistoryCallsBack ==
    \E k \in 1..MaxAdders, ok \in (IF popup = "controller" THEN BOOLEAN ELSE {TRUE}) :
        /\ adders[k].pc = "awaitSet"
        /\ conversionHistory' = IF ok THEN adders[k].history ELSE conversionHistory
        /\ Adder(k, [adders[k] EXCEPT !.pc = "done", !.stored = ok])

\* clearHistory: one set of the empty list; the entries of the additions
\* that have completed are removed by it
clearHistoryBetween ==
    /\ conversionHistory # <<>>
    /\ conversionHistory' = <<>>
    /\ adders' = [k \in 1..MaxAdders |->
                    IF adders[k].pc = "done" /\ adders[k].stored
                        THEN [adders[k] EXCEPT !.cleared = TRUE]
                        ELSE adders[k]]
    /\ UNCHANGED <<contentVars, popup, tabUrl, loaded, op, attempt, probes, injections,
                   sent, saveHistory, outcome, status, historyAdds, requests, exported,
                   opResult, ops, passes, installed, send, preview, container,
                   logVars>>

NextHistoryRace ==
    \/ addHistoryEntryStarts
    \/ getHistoryCallsBack
    \/ setHistoryCallsBack
    \/ clearHistoryBetween

\* either popup, with an empty history or one earlier entry
InitHistoryRace ==
    /\ conversionMap = [present |-> TRUE, entries |-> DEFAULT_MAP]
    /\ targetTags = "p"
    /\ text = [n \in TextNodes |-> <<>>]
    /\ pc = "idle"
    /\ req = ""
    /\ last = NoPass
    /\ popup \in {"controller", "popup.js"}
    /\ tabUrl = "https:"
    /\ loaded = TRUE
    /\ op = "idle"
    /\ attempt = 0
    /\ probes = 0
    /\ injections = 0
    /\ sent = 0
    /\ saveHistory = TRUE
    /\ outcome = "none"
    /\ status = NoStatus
    /\ conversionHistory \in {<<>>, <<[url |-> "https:", count |-> 2, date |-> 0]>>}
    /\ historyAdds = 0
    /\ requests = 0
    /\ exported = NoFile
    /\ opResult = NoOp
    /\ ops = 0
    /\ passes = NoPasses
    /\ ServicesAtRest

SpecHistoryRace == InitHistoryRace /\ [][NextHistoryRace]_vars

---------------------------------------------------------------------------
(* The dependency container of services/ServiceFactory.js: services are    *)
(* registered with the names they depend on, createServiceContainer looks  *)
(* for cycles before it hands the container out, and resolve builds a      *)
(* service after the services it depends on.                               *)

\* the resolve calls followed
MaxResolves == 2

Names == {ServiceNames[i] : i \in DOMAIN ServiceNames}

\* the dependencies arrays a service is registered with
DependencyLists ==
    {<<>>} \cup {<<a>> : a \in Names}
           \cup {<<a, b>> : a, b \in Names}

\* what a factory returns: an object, or a value that is falsy in JavaScript
FactoryValues == {"object", "null"}

\* services.set(name, {type, factory, dependencies, instance: null})
Registered(name, type, dependencies, instance) ==
    /\ container.created = "none"
    /\ container' =
           [container EXCEPT !.services[name] = [type |-> type, dependencies |-> dependencies],
                             !.instance[name] = instance,
                             !.factoryCalls[name] = 0]
    /\ UNCHANGED <<contentVars, popupVars, overlapVars, installed, send, preview, adders,
                   logVars>>

registerSingleton ==
    \E name \in Names, dependencies \in DependencyLists :
        Registered(name, "singleton", dependencies, "none")

registerTransient ==
    \E name \in Names, dependencies \in DependencyLists :
        Registered(name, "transient", dependencies, "none")

registerInstance ==
    \E name \in Names : Registered(name, "instance", <<>>, "object")

\* what one hasCyclicDependency call hands back: its answer and the two sets
\* it shares with the calls inside it
Searched(found, visited, recursionStack) ==
    [found |-> found, visited |-> visited, recursionStack |-> recursionStack]

\* recursionStack.delete(serviceName); return false
Left(serviceName, r) ==
    IF r.found THEN r
    ELSE Searched(FALSE, r.visited, r.recursionStack \ {serviceName})

RECURSIVE hasCyclicDependency(_, _, _, _)
RECURSIVE DependenciesFrom(_, _, _, _, _)
RECURSIVE AfterDependency(_, _, _, _)

\* hasCyclicDependency(serviceName, visited, recursionStack)
hasCyclicDependency(services, serviceName, visited, recursionStack) ==
    IF services[serviceName].type = "none"
        THEN Searched(FALSE, visited, recursionStack)
        ELSE Left(serviceName,
                  DependenciesFrom(services, services[serviceName].dependencies, 1,
                                   visited \cup {serviceName},
                                   recursionStack \cup {serviceName}))

\* the loop over service.dependencies, from the i-th on
DependenciesFrom(services, dependencies, i, visited, recursionStack) ==
    IF i > Len(dependencies) THEN Searched(FALSE, visited, recursionStack)
    ELSE IF dependencies[i] \notin visited
        THEN AfterDependency(services, dependencies, i,
                 hasCyclicDependency(services, dependencies[i], visited, recursionStack))
    ELSE IF dependencies[i] \in recursionStack
        THEN Searched(TRUE, visited, recursionStack)
    ELSE DependenciesFrom(services, dependencies, i + 1, visited, recursionStack)

\* the inner call has answered: return true, or go on with the next dependency
AfterDependency(services, dependencies, i, r) ==
    IF r.found THEN r
    ELSE DependenciesFrom(services, dependencies, i + 1, r.visited, r.recursionStack)

\* findCyclicDependencies(): one search, with new sets, from every key of
\* services in turn
findCyclicDependencies(services) ==
    LET Cyclic(serviceName) == hasCyclicDependency(services, serviceName, {}, {}).found
    IN  SelectSeq(ServiceNames, Cyclic)

\* createServiceContainer's check: throw on a cycle, else return the container
Created(cyclicDeps) ==
    /\ container' = [container EXCEPT !.cyclicDeps = cyclicDeps,
                                      !.created = IF Len(cyclicDeps) > 0 THEN "thrown"
                                                                        ELSE "returned"]
    /\ UNCHANGED <<contentVars, popupVars, overlapVars, installed, send, preview, adders,
                   logVars>>

createServiceContainer ==
    /\ container.created = "none"
    /\ Created(findCyclicDependencies(container.services))

\* the container while resolve runs: the instances kept, the factory calls
\* so far and how the call goes
Resolving(instance, factoryCalls, ended) ==
    [instance |-> instance, factoryCalls |-> factoryCalls, outcome |-> ended]

RECURSIVE Resolve(_, _, _, _, _)
RECURSIVE ResolveFrom(_, _, _, _, _, _)

\* service.factory(...dependencies), and the instance kept for a singleton
Constructed(services, values, name, r) ==
    IF r.outcome # "returned" THEN r
    ELSE Resolving(IF services[name].type = "singleton"
                       THEN [r.instance EXCEPT ![name] = values[name]]
                       ELSE r.instance,
                   [r.factoryCalls EXCEPT ![name] = @ + 1],
                   "returned")

\* resolve(name), depth calls deep: more calls than there are services means
\* a service is being resolved inside its own resolution, which never ends
Resolve(services, values, name, depth, r) ==
    IF services[name].type = "none"
        THEN Resolving(r.instance, r.factoryCalls, "not registered")
    ELSE IF services[name].type = "instance" THEN r
    ELSE IF services[name].type = "singleton" /\ r.instance[name] = "object" THEN r
    ELSE IF depth > Len(ServiceNames)
        THEN Resolving(r.instance, r.factoryCalls, "no end")
    ELSE Constructed(services, values, name,
             ResolveFrom(services, values, services[name].dependencies, 1, depth + 1, r))

\* service.dependencies.map(dep => this.resolve(dep)), from the i-th on
ResolveFrom(services, values, dependencies, i, depth, r) ==
    IF i > Len(dependencies) \/ r.outcome # "returned" THEN r
    ELSE ResolveFrom(services, values, dependencies, i + 1, depth,
                     Resolve(services, values, dependencies[i], depth, r))

\* the call is over
ResolveEnds(name, r) ==
    /\ container' = [container EXCEPT !.instance = r.instance,
                                      !.factoryCalls = r.factoryCalls,
                                      !.outcome = r.outcome,
                                      !.name = name,
                                      !.resolves = @ + 1]
    /\ UNCHANGED <<contentVars, popupVars, overlapVars, installed, send, preview, adders,
                   logVars>>

\* getService(serviceName): resolve on the container createServiceContainer
\* returned; every factory returns some value
resolve ==
    \E name \in Names, values \in [Names -> FactoryValues] :
        /\ container.created = "returned"
        /\ container.resolves < MaxResolves
        /\ container.services[name].type # "none"
        /\ ResolveEnds(name, Resolve(container.services, values, name, 1,
                                     Resolving(container.instance, container.factoryCalls,
                                               "returned")))

NextContainer ==
    \/ registerSingleton
    \/ registerTransient
    \/ registerInstance
    \/ createServiceContainer
    \/ resolve

\* a new container
InitContainer ==
    /\ conversionMap = [present |-> TRUE, entries |-> DEFAULT_MAP]
    /\ targetTags = "p"
    /\ text = [n \in TextNodes |-> <<>>]
    /\ pc = "idle"
    /\ req = ""
    /\ last = NoPass
    /\ popup = "controller"
    /\ tabUrl = "https:"
    /\ PopupAtRest

SpecContainer == InitContainer /\ [][NextContainer]_vars

---------------------------------------------------------------------------
(* What the properties speak of *)

\* the character a key stands for: the code unit a \uXXXX key denotes,
\* else the key's character
SourceChar(key) == IF IsUnicodeFormat(key) THEN DecodeUnicodeKey(key) ELSE key[1]

SourceChars(map) == { SourceChar(map[i].key) : i \in 1..Len(map) }

\* the values the map gives the source character c
ValuesFor(map, c) ==
    { map[i].value : i \in { j \in 1..Len(map) : SourceChar(map[j].key) = c } }

\* the characters of the map's values
ValueChars(map) == UNION { { map[i].value[k] : k \in 1..Len(map[i].value) } : i \in 1..Len(map) }

\* no value of the map is (or contains) a source character of the map
KeysValuesDisjoint(map) == SourceChars(map) \cap ValueChars(map) = {}

\* the processTextNodes calls of the last pass
Calls == { last.calls[k] : k \in 1..Len(last.calls) }

\* the positions of s that hold a source character of map
SourcePositions(map, s) == { i \in 1..Len(s) : s[i] \in SourceChars(map) }

\* the positions where the call changed the text of node n
ChangedPositions(c, n) ==
    { i \in 1..Len(c.textIn[n]) : i > Len(c.textOut[n]) \/ c.textOut[n][i] # c.textIn[n][i] }

\* the sum of f over the sequence's indices
RECURSIVE SumTo(_, _)
SumTo(f, n) == IF n = 0 THEN 0 ELSE f[n] + SumTo(f, n - 1)

\* the characters of the model
Alphabet ==
    { Ch(c) : c \in {"[", "\\", "]", "^", "-", "u", ":", ".", "/", ";", ")", "!",
                     "U+02F8", "U+2024", "U+2044"} }

\* the pattern has a match that is exactly the one character c
MatchesChar(pattern, c) == MatchFrom(pattern.terms, 1, <<c>>, 1) = 2

\* the text nodes below root
RECURSIVE IsBelow(_, _)
IsBelow(n, root) ==
    \E k \in 1..Len(Children(root)) : Children(root)[k] = n \/ IsBelow(n, Children(root)[k])

\* the text nodes of the page in document order
TextNodeOrder == <<"t1", "t2", "t3">>

\* the characters with a meaning in pattern syntax
SyntaxChars == { Ch("]"), Ch("^"), Ch("-"), Ch("\\"), Ch("[") }

HasSyntaxKey(map) == \E i \in 1..Len(map) : Len(map[i].key) = 1 /\ map[i].key[1] \in SyntaxChars

\* the number of positions the call changed in the nodes it visited
Substitutions(c) ==
    SumTo([j \in 1..Len(c.visited) |-> Cardinality(ChangedPositions(c, c.visited[j]))],
          Len(c.visited))

\* the texts of the nodes the call visited, one after the other
FlatText(c, txt) == Join([j \in 1..Len(c.visited) |-> txt[c.visited[j]]])

---------------------------------------------------------------------------
(* Properties *)

\* C1: when the source characters and the values of the map are disjoint,
\* every occurrence of a source character in a processed text node has been
\* replaced by the value the map gives it, and no source character remains
\* in the node.
C1_SourceCharsReplaced ==
    last.valid /\ KeysValuesDisjoint(last.map) =>
        \A c \in Calls : \A j \in 1..Len(c.visited) :
            LET n == c.visited[j] IN
            /\ \A i \in SourcePositions(last.map, c.textIn[n]) :
                /\ i <= Len(c.textOut[n])
                /\ <<c.textOut[n][i]>> \in ValuesFor(last.map, c.textIn[n][i])
            /\ SourcePositions(last.map, c.textOut[n]) = {}

\* C2: for a map the extension can store (validateConversionMap accepts it,
\* keys in \uXXXX form included), the count processTextNodes returns is the
\* number of characters it actually replaced.
C2_CountIsSubstitutions ==
    last.valid /\ validateConversionMap(last.map) =>
        \A c \in Calls : c.conversions = Substitutions(c)

\* C3: the matcher createUnicodePattern builds from a map matches a
\* character exactly when it is a source character of the map.
C3_MatcherIsSourceSet ==
    last.valid =>
        /\ last.built
        /\ \A c \in Alphabet :
            MatchesChar(createUnicodePattern(last.map), c) <=> c \in SourceChars(last.map)

\* C4: with a key that is a pattern syntax character (], ^, -, \, [) the
\* builder does not throw, the key matches itself and the matcher matches
\* no character that is not a key.
C4_SyntaxKeysEscaped ==
    last.valid /\ HasSyntaxKey(last.map) =>
        /\ last.built
        /\ \A i \in 1..Len(last.map) :
            MatchesChar(createUnicodePattern(last.map), SourceChar(last.map[i].key))
        /\ \A c \in Alphabet \ SourceChars(last.map) :
            ~MatchesChar(createUnicodePattern(last.map), c)

\* C5: with an empty map the builder does not throw and the matcher matches
\* nothing; the pass counts 0 and leaves every text node as it was, and
\* with a selector that parses it answers success.
C5_EmptyMapConvertsNothing ==
    last.valid /\ last.map = <<>> =>
        /\ last.built
        /\ \A c \in Alphabet : ~MatchesChar(createUnicodePattern(last.map), c)
        /\ \A s \in Texts : \A p \in 1..Len(s) :
            MatchFrom(createUnicodePattern(last.map).terms, 1, s, p) = 0
        /\ last.result.count = 0
        /\ last.after = last.before
        /\ SelectorIsValid(last.selector) => last.result.success

\* a pass with an empty map over elements whose text nodes hold MaxLen characters
C5_Witness ==
    /\ last.valid /\ last.map = <<>> /\ last.result.success
    /\ \E c \in Calls : FlatText(c, c.textIn) # <<>>
    /\ TotalLen(last.before) = MaxLen

C7_SecondPassCountsZero ==
    [][ ( /\ pc = "awaitMap" /\ pc' = "idle"
          /\ last.valid /\ last.result.success
          /\ last'.selector = last.selector /\ last'.map = last.map
          /\ KeysValuesDisjoint(last.map) )
        => (last'.result.count = 0 /\ text' = text) ]_vars

\* C8: a call whose text nodes hold no source character of the map returns
\* 0 and leaves the text as it was.
C8_NoSourceCharNoChange ==
    last.valid =>
        \A c \in Calls :
            (\A j \in 1..Len(c.visited) :
                SourcePositions(last.map, c.textIn[c.visited[j]]) = {})
            => (c.conversions = 0 /\ c.textOut = c.textIn)

\* C9: a call assigns textContent to exactly the nodes whose converted text
\* differs from the original, and a character that changed is a source
\* character the matcher matches: every other character is untouched.
C9_WriteBackOnlyWhenChanged ==
    last.valid =>
        \A c \in Calls : \A n \in TextNodes :
            /\ (\E k \in 1..Len(c.written) : c.written[k] = n)
                   <=> c.textOut[n] # c.textIn[n]
            /\ Len(c.textOut[n]) = Len(c.textIn[n])
            /\ \A i \in ChangedPositions(c, n) :
                /\ c.textIn[n][i] \in SourceChars(last.map)
                /\ MatchesChar(createUnicodePattern(last.map), c.textIn[n][i])

\* a call on p1 that assigned to t1 and left the non-empty text of t2 alone
C9_Witness ==
    \E c \in Calls :
        /\ c.root = "p1"
        /\ c.written = <<"t1">>
        /\ c.textIn["t2"] # <<>>
        /\ c.textOut["t2"] = c.textIn["t2"]

Answered == op = "done" /\ outcome = "answered"

\* C11: a request whose selector does not parse ends with the answer
\* success = false, contentInvalidSelector, count 0, the status shown is
\* that failure (not a success with count 0), no text node has changed and
\* no history entry is added.
C11_InvalidSelectorSurfaced ==
    Answered /\ ~SelectorIsValid(last.selector) =>
        /\ last.result = InvalidSelectorResult
        /\ last.result # NoElementsResult
        /\ last.after = last.before
        /\ status = [success |-> FALSE, message |-> "contentInvalidSelector", count |-> 0]
        /\ status # ChannelFailureStatus
        /\ historyAdds = 0

\* C16: a request adds one history entry when the response is a success
\* with count > 0 and saveHistory is not false, and none otherwise: none for
\* count 0, for a failed pass, for a request that got no response.
C16_HistoryOnlyForConversions ==
    /\ historyAdds <= 1
    /\ Len(conversionHistory) <= requests
    /\ \A k \in 1..Len(conversionHistory) : conversionHistory[k].count > 0
    /\ op = "done" =>
        historyAdds = IF outcome = "answered" /\ saveHistory
                            /\ last.result.success /\ last.result.count > 0
                          THEN 1 ELSE 0

\* a request answered with count > 0 whose entry is the newest of the history
C16_Witness ==
    /\ Answered /\ last.result.count > 0
    /\ historyAdds = 1
    /\ conversionHistory # <<>>
    /\ conversionHistory[1].count = last.result.count

\* C17: the channel loop is in one of probing, injecting, waiting, ready,
\* failed; it sends at most maxRetries pings and at most maxRetries - 1
\* injections, and from probing it always reaches ready or failed.
C17_EnsureTerminates ==
    /\ [](/\ op \in {"idle", "probing", "injecting", "waiting", "ready", "failed",
                      "sent", "done"}
          /\ probes <= maxRetries
          /\ injections <= maxRetries - 1
          /\ op \in {"probing", "injecting", "waiting"} => attempt \in 1..maxRetries
          /\ op = "ready" => probes >= 1
          /\ op = "failed" => probes = maxRetries /\ injections = maxRetries - 1)
    /\ (op = "probing") ~> (op \in {"ready", "failed"})

\* the loop has failed after three pings and two injections
C17_Witness == op = "failed" /\ probes = 3 /\ injections = 2

\* C18: a request sends convertText at most once, and only from ready; a
\* request whose channel failed sends none; a convertText that failed or
\* timed out ends the request with a failure status and one message sent.
C18_ConvertSentOnce ==
    /\ [](/\ sent <= 1
          /\ outcome = "channelFailed" => sent = 0
          /\ outcome = "blocked" => sent = 0 /\ probes = 0
          /\ (op = "done" /\ outcome \in {"sendFailed", "timedOut"}) =>
                 sent = 1 /\ status = ChannelFailureStatus /\ ~status.success)
    /\ [][sent' > sent => op = "ready"]_vars

\* a timed-out convertText after a channel that needed an injection
C18_Witness ==
    op = "done" /\ outcome = "timedOut" /\ sent = 1 /\ injections >= 1 /\ ~status.success


\* the operations that write the map through updateConversionSettings or
\* StorageService.resetSettings
UpdatingOps ==
    {"handleAddConversion", "handleEditConversion", "handleDeleteConversion",
     "handleImportSettings", "resetConversionMap"}

\* C12: whenever a storage write of updateConversionSettings or resetSettings
\* fails, the operation returns a failure result and shows no success status
C12_StorageFailuresSurfaced ==
    (opResult.op \in UpdatingOps /\ opResult.writeFailed)
        => (~opResult.success /\ ~opResult.shown.success)


UniqueSources(map) ==
    \A i, j \in 1..Len(map) : SourceChar(map[i].key) = SourceChar(map[j].key) => i = j

\* a step of PopupController.handleAddConversion
AddStep == ops' = ops + 1 /\ opResult'.op = "handleAddConversion"

\* C14: handleAddConversion on a map whose entries denote different source code
\* points leaves a stored map whose entries denote different source code
\* points, so no sequence of adds from the default map stores a source code
\* point twice
C14_AddKeepsKeysUnique ==
    [][(AddStep /\ UniqueSources(getConversionMap(conversionMap)))
            => UniqueSources(getConversionMap(conversionMap'))]_vars

\* a step of handleImportSettings that reads the file just exported from the
\* stored map and whose storage write does not fail
RoundTripStep ==
    /\ ops' = ops + 1
    /\ opResult'.op = "handleImportSettings"
    /\ conversionMap.present
    /\ exported = [present |-> TRUE, entries |-> exportMap(conversionMap.entries)]
    /\ opResult'.file = exported.entries
    /\ ~opResult'.writeFailed

\* C20: exporting a stored map and importing the exported file succeeds and
\* stores a map equal to the original, key for key and value for value
C20_ExportImportRoundTrip ==
    [][RoundTripStep
            => (opResult'.shown.success /\ conversionMap' = conversionMap)]_vars


\* the stored history is ordered by date, newest first
NewestFirst ==
    \A i, j \in 1..Len(conversionHistory) :
        i < j => conversionHistory[i].date > conversionHistory[j].date

\* a step that stores a new history entry
HistoryAddStep == historyAdds' = historyAdds + 1

Substituted(pass) ==
    SumTo([k \in 1..Len(pass.calls) |-> Substitutions(pass.calls[k])], Len(pass.calls))

\* the requests whose pass has run
DonePasses == { k \in 1..MaxOverlap : passes[k].pc = "done" }

\* the pass of request k ran on the page as another pass left it, or the
\* other pass ran on the page as this one left it, or on the same text
Serial(j, k) ==
    \/ passes[k].pass.before = passes[j].pass.after
    \/ passes[j].pass.before = passes[k].pass.after

\* C19: the passes of overlapping requests run one after the other, the
\* count each request reports is the number of characters that request
\* substituted, and the counts sum to the characters substituted on the page
C19_OverlappingPassesIndependent ==
    /\ \A j, k \in DonePasses : j # k => Serial(j, k)
    /\ \A k \in DonePasses : passes[k].pass.result.count = Substituted(passes[k].pass)
    /\ SumTo([k \in 1..MaxOverlap |-> passes[k].pass.result.count], MaxOverlap)
           = SumTo([k \in 1..MaxOverlap |-> Substituted(passes[k].pass)], MaxOverlap)

\* C21: an onInstalled event with reason 'update' leaves the stored
\* conversionMap, targetTags and conversionHistory as they were; the storage
\* changes only under reason 'install', and an 'install' leaves the default
\* map of three entries, 'p' and an empty history.
C21_UpdateKeepsSettings ==
    [][ /\ (installed'.reason = "update" /\ installed' # installed)
            => UNCHANGED <<conversionMap, targetTags, conversionHistory>>
        /\ (<<conversionMap, targetTags, conversionHistory>>'
                # <<conversionMap, targetTags, conversionHistory>>)
            => installed'.reason = "install"
        /\ (installed'.reason = "install" /\ installed' # installed)
            => /\ conversionMap' = [present |-> TRUE, entries |-> DEFAULT_MAP]
               /\ Len(DEFAULT_MAP) = 3
               /\ targetTags' = "p"
               /\ conversionHistory' = <<>> ]_vars

\* an update from 1.x has been handled on a storage holding the user's own
\* map, selector and history
C21_Witness ==
    /\ installed = [reason |-> "update", previousVersion |-> "1."]
    /\ conversionMap.present /\ conversionMap.entries # DEFAULT_MAP
    /\ conversionMap.entries # <<>>
    /\ targetTags = "div"
    /\ Len(conversionHistory) = 2

\* C22: executeConversion on a tab whose URL does not parse to protocol
\* http: or https: (chrome:, chrome-extension:, moz-extension:, file:, no
\* URL, an unparsable URL) sends no ping, injects nothing, sends no
\* convertText message and writes no history entry, and every request on
\* such a tab ends in a failure result.
C22_UrlAllowListGate ==
    (popup = "controller" /\ tabUrl \notin {"http:", "https:"})
        => /\ probes = 0 /\ injections = 0 /\ sent = 0 /\ trace = <<>>
           /\ pc = "idle" /\ last = NoPass
           /\ historyAdds = 0 /\ conversionHistory = <<>> /\ historySaved = "none"
           /\ requests > 0
               => /\ returned.settled /\ ~returned.success
                  /\ ~status.success
                  /\ outcome = "blocked"

\* a second request on an extension page has been refused
C22_Witness ==
    /\ popup = "controller"
    /\ tabUrl = "moz-extension:"
    /\ requests = 2
    /\ op = "done"
    /\ returned = FailureResult

\* the probes among the first i steps of the trace
ProbesUpTo(i) == Cardinality({ j \in 1..i : trace[j].step = "probe" })

\* ensureContentScript has returned its success to the current request
EnsureSucceeded ==
    \/ op \in {"ready", "sent"}
    \/ op = "done" /\ outcome \in {"answered", "sendFailed", "timedOut"}

\* C23: in ensureContentScript an injection comes only directly after a
\* failed probe that was not the maxRetries-th; success is returned only
\* when the most recent probe was answered 'ready'; nothing follows a
\* successful probe; and the wait that follows the injection of attempt n
\* lasts min(baseDelay * n, maxDelay).  In MessageService the wait follows
\* every injection, failed ones included.
C23_EnsureOrdering ==
    /\ \A i \in 1..Len(trace) :
        /\ trace[i].step = "inject"
            => /\ i > 1
               /\ trace[i - 1] = Probe(FALSE)
               /\ ProbesUpTo(i) < maxRetries
        /\ trace[i] = Probe(TRUE) => i = Len(trace)
        /\ trace[i].step = "wait"
            => /\ i > 1
               /\ trace[i - 1].step = "inject"
               /\ trace[i].ms = IF baseDelay * ProbesUpTo(i) < maxDelay
                                    THEN baseDelay * ProbesUpTo(i)
                                    ELSE maxDelay
        /\ (popup = "controller" /\ trace[i].step = "inject" /\ i < Len(trace))
            => trace[i + 1].step = "wait"
    /\ ProbesUpTo(Len(trace)) <= maxRetries
    /\ EnsureSucceeded => (trace # <<>> /\ trace[Len(trace)] = Probe(TRUE))

\* the third probe was answered after two injections and their waits
C23_Witness ==
    /\ popup = "controller"
    /\ op = "ready"
    /\ trace = <<Probe(FALSE), Injection, Wait(200), Probe(FALSE), Injection, Wait(400),
                 Probe(TRUE)>>

\* the result sendMessage owes its caller, from what happened first
ExpectedResult ==
    IF send.value = "thrown" THEN SendFailure
    ELSE IF Head(send.order) = "timeout" THEN SendFailure
    ELSE IF send.lastError THEN SendFailure
    ELSE SendSuccess(send.response)

\* C24: every sendMessage call completes with exactly one result: success
\* carrying the response when the callback fired without lastError before
\* the timeout, failure when lastError was set, failure when the timeout
\* came first; and a response arriving after the timeout does not change
\* the result already delivered.
C24_SendMessageOneResult ==
    /\ [](send.results <= 1)
    /\ [](send.results = 1 => send.result = ExpectedResult)
    /\ [][(send.results = 1 /\ send'.calls = send.calls)
             => (send'.results = 1 /\ send'.result = send.result)]_vars
    /\ \A n \in 1..MaxCalls :
        (send.calls = n /\ send.results = 0) ~> (send.calls = n /\ send.results = 1)

\* the timeout came first, the failure was delivered, and then the response
\* arrived
C24_Witness ==
    /\ send.order = <<"timeout", "callback">>
    /\ ~send.lastError
    /\ send.response = "conversion result"
    /\ send.results = 1
    /\ send.result = SendFailure

\* the response handled in this step reported a conversion, its history
\* entry was to be saved, and addEntry failed
HistorySaveFailed ==
    /\ popup = "controller"
    /\ op = "sent" /\ op' = "done" /\ outcome' = "answered"
    /\ last.result.success /\ last.result.count > 0
    /\ historySaved' = "failed"

\* C25: when the content script reported success with count > 0 and
\* historyService.addEntry fails, executeConversion still returns a success
\* result carrying the same count and message.
C25_HistoryFailureNotFatal ==
    [][HistorySaveFailed
          => /\ returned'.settled /\ returned'.success
             /\ returned'.count = last.result.count
             /\ returned'.message = last.result.message
             /\ conversionHistory' = conversionHistory]_vars

\* a conversion of one character whose history entry could not be saved
C25_Witness ==
    /\ popup = "controller"
    /\ op = "done" /\ outcome = "answered"
    /\ historySaved = "failed"
    /\ last.result.count = 1
    /\ returned = [settled |-> TRUE, success |-> TRUE,
                   message |-> "contentConversionComplete", count |-> 1]
    /\ conversionHistory = <<>>

\* what the content script's conversion makes of a text node holding s
NodeConversion(s, map) == Replace(s, createUnicodePattern(map), map)

\* C26: for every non-empty sample text and every storable map,
\* generatePreview returns the converted text and the count that the
\* content script's conversion produces for a text node holding that text,
\* and it changes neither the stored settings nor the page.
C26_PreviewIsConversion ==
    /\ []((preview.calls > 0 /\ preview.sampleText # <<>>)
            => /\ preview.result.success
               /\ preview.result.converted
                      = NodeConversion(preview.sampleText, preview.map).out
               /\ preview.result.conversions
                      = NodeConversion(preview.sampleText, preview.map).conversions)
    /\ [][preview' # preview => UNCHANGED <<conversionMap, targetTags, text>>]_vars

\* an import has been handled in this step
ImportStep ==
    /\ ops' = ops + 1
    /\ opResult'.op \in {"handleImportSettings", "importInputChange"}

\* the map an import reads from the file's object: U+XXXX keys and single
\* non-ASCII characters are read as \uXXXX keys
ImportedMap(file) == convertedMap(file)

\* the map passes validation: every key is in \uXXXX form or a single
\* non-ASCII character, every replacement is exactly one character, and no
\* two entries have the same replacement
PassesValidation(map) ==
    /\ \A i \in 1..Len(map) :
        /\ IsUnicodeFormat(map[i].key) \/ (Len(map[i].key) = 1 /\ map[i].key[1] > 127)
        /\ Len(map[i].value) = 1
    /\ \A i, j \in 1..Len(map) : (i # j) => map[i].value # map[j].value

InHistory(k) ==
    \E i \in 1..Len(conversionHistory) : conversionHistory[i] = adders[k].entry

\* C28: every entry whose addition completed with its write done is in the
\* stored history until the 50-entry cap evicts it or a clear removes it,
\* also when additions overlap.  (Here at most MaxAdders entries are added,
\* so the cap evicts nothing.)
C28_NoHistoryEntryLost ==
    \A k \in 1..MaxAdders :
        (adders[k].pc = "done" /\ adders[k].stored /\ ~adders[k].cleared)
            => InHistory(k)

\* the text nodes that lie below more than one root of the last pass
SharedNodes ==
    { n \in TextNodes :
        Cardinality({ k \in 1..Len(last.calls) : IsBelow(n, last.calls[k].root) }) > 1 }

\* the text nodes that lie below a root of the last pass
VisitedNodes ==
    { n \in TextNodes : \E k \in 1..Len(last.calls) : IsBelow(n, last.calls[k].root) }

\* the matchable characters the text nodes of ns held before the pass
Matchable(ns) ==
    SumTo([j \in 1..Len(TextNodeOrder) |->
              IF TextNodeOrder[j] \in ns
                  THEN Cardinality(SourcePositions(last.map, last.before[TextNodeOrder[j]]))
                  ELSE 0],
          Len(TextNodeOrder))

\* C29: when the selector matches an element and one of its descendants and
\* no value of the map is a key of the map, every matchable character of
\* the shared subtree is substituted exactly once (the text after the pass
\* holds its value in its place) and counts exactly once in the total.
C29_SharedSubtreeOnce ==
    (last.valid /\ SelectorIsValid(last.selector) /\ SharedNodes # {}
               /\ KeysValuesDisjoint(last.map))
        => /\ \A n \in SharedNodes :
               /\ Len(last.after[n]) = Len(last.before[n])
               /\ \A i \in 1..Len(last.before[n]) :
                   IF last.before[n][i] \in SourceChars(last.map)
                       THEN <<last.after[n][i]>> \in ValuesFor(last.map, last.before[n][i])
                       ELSE last.after[n][i] = last.before[n][i]
           /\ last.result.count = Matchable(VisitedNodes)

\* a registered service names b among its dependencies, and b is registered
DependsOn(services, a, b) ==
    /\ services[a].type # "none"
    /\ services[b].type # "none"
    /\ \E i \in DOMAIN services[a].dependencies : services[a].dependencies[i] = b

\* b is reached from a along at least one and at most steps dependencies
RECURSIVE ReachedWithin(_, _, _, _)
ReachedWithin(services, a, b, steps) ==
    /\ steps > 0
    /\ \/ DependsOn(services, a, b)
       \/ \E c \in Names : DependsOn(services, a, c)
                            /\ ReachedWithin(services, c, b, steps - 1)

\* a dependency cycle is reachable from the service
CycleReachable(services, a) ==
    /\ services[a].type # "none"
    /\ \E c \in Names :
           /\ c = a \/ ReachedWithin(services, a, c, Len(ServiceNames))
           /\ ReachedWithin(services, c, c, Len(ServiceNames))

\* the list names exactly the services a cycle is reachable from, once each
ListsCycles(services, list) ==
    /\ \A n \in Names : (\E i \in DOMAIN list : list[i] = n) <=> CycleReachable(services, n)
    /\ \A i, j \in DOMAIN list : list[i] = list[j] => i = j

====
